---- MODULE Spec2Model ----
(***************************************************************************)
(* Catalog scrapers of Accesorios-compras.                                 *)
(*                                                                         *)
(* Two engines are modelled, selected by the variable "variant":           *)
(*   "api"  - the WooCommerce Store API scraper: pagination is discovered  *)
(*            dynamically by the workers (tasks channel, pending counter,  *)
(*            monitor goroutine, incremental JSON writes);                 *)
(*   "html" - the Odoo shop scrapers (regex and goquery builds share the   *)
(*            same run/worker/collectFromCategory structure): categories   *)
(*            are paginated eagerly, then a static pool of workers         *)
(*            scrapes the detail pages.                                    *)
(***************************************************************************)
EXTENDS Integers, Sequences, FiniteSets, TLC

(***************************************************************************)
(* Bounds of the model and program constants                               *)
(***************************************************************************)

\* number of worker goroutines tried: flagWorkers ranges over 1..MaxWorkers
MaxWorkers == 2

\* capacity of the tasks channel (100 in the program, scaled down)
TasksCap == 1

\* capacity of the results channel of the api engine (100 in the program,
\* scaled down)
ResultsCap == 1

\* attempts of one fetch
maxRetries == 3

\* how many requests and writes may fail in one run
MaxFaults == 1

Workers == 1..MaxWorkers

None == "none"

\* a worker that holds no task
NoTask == [idle |-> TRUE]

(***************************************************************************)
(* Small helpers                                                           *)
(***************************************************************************)

Range(s) == {s[i] : i \in 1..Len(s)}

RECURSIVE Pow(_, _)
Pow(b, e) == IF e = 0 THEN 1 ELSE b * Pow(b, e - 1)

(***************************************************************************)
(* Fetcher: fetchPage / fetchHTML / fetchDoc                               *)
(*                                                                         *)
(* A request is what the remote end will do to one fetch call:             *)
(*   malformed - http.NewRequest rejects the URL;                          *)
(*   resp      - the class of the response to each attempt:                *)
(*               "ok"        200 and a body that parses,                   *)
(*               "neterr"    transport error or unreadable body,           *)
(*               "status"    a status other than 200 and 429, or a body    *)
(*                           that does not parse,                          *)
(*               "ratelimit" status 429.                                   *)
(***************************************************************************)

Responses == {"ok", "neterr", "status", "ratelimit"}

Requests == [malformed : BOOLEAN, resp : [1..maxRetries -> Responses]]

\* the wait before attempt number "attempt" (0-based), attempt > 0
RetryBackoff(attempt) == Pow(2, attempt)

\* the wait after a 429 answer to attempt number "attempt" (0-based)
RateLimitBackoff(attempt) == Pow(3, attempt + 1)

\* a fetch that returns the error of its first failed attempt
FetchLoop_ReturnOnError(req, attempt, log) ==
    IF req.malformed
    THEN [err |-> TRUE, exhausted |-> FALSE, attempts |-> attempt, log |-> log]
    ELSE [err |-> req.resp[attempt + 1] # "ok", exhausted |-> FALSE,
          attempts |-> attempt + 1, log |-> Append(log, <<"try", attempt>>)]

\* a fetch whose loop ends one attempt early
RECURSIVE FetchLoop_OneAttemptShort(_, _, _)
FetchLoop_OneAttemptShort(req, attempt, log) ==
    IF attempt >= maxRetries - 1
    THEN [err |-> TRUE, exhausted |-> TRUE, attempts |-> attempt, log |-> log]
    ELSE IF req.malformed
    THEN [err |-> TRUE, exhausted |-> FALSE, attempts |-> attempt, log |-> log]
    ELSE IF req.resp[attempt + 1] = "ok"
    THEN [err |-> FALSE, exhausted |-> FALSE, attempts |-> attempt + 1,
          log |-> Append(log, <<"try", attempt>>)]
    ELSE FetchLoop_OneAttemptShort(req, attempt + 1,
                                   Append(log, <<"try", attempt>>))

\* a fetch that takes a status other than 200 and 429 for final
RECURSIVE FetchLoop_StatusFatal(_, _, _)
FetchLoop_StatusFatal(req, attempt, log) ==
    IF attempt >= maxRetries
    THEN [err |-> TRUE, exhausted |-> TRUE, attempts |-> attempt, log |-> log]
    ELSE IF req.malformed
    THEN [err |-> TRUE, exhausted |-> FALSE, attempts |-> attempt, log |-> log]
    ELSE IF req.resp[attempt + 1] = "ok"
    THEN [err |-> FALSE, exhausted |-> FALSE, attempts |-> attempt + 1,
          log |-> Append(log, <<"try", attempt>>)]
    ELSE IF req.resp[attempt + 1] = "status"
    THEN [err |-> TRUE, exhausted |-> FALSE, attempts |-> attempt + 1,
          log |-> Append(log, <<"try", attempt>>)]
    ELSE FetchLoop_StatusFatal(req, attempt + 1,
                               Append(log, <<"try", attempt>>))

\* The loop of fetch from attempt number "attempt" (0-based) on. "log" is the
\* sequence of events so far: <<"try", n>> for the request of attempt n,
\* <<"sleep", s>> for a wait of s seconds.
RECURSIVE FetchLoop(_, _, _)
FetchLoop(req, attempt, log) ==
    IF attempt >= maxRetries
    THEN [err |-> TRUE, exhausted |-> TRUE, attempts |-> attempt, log |-> log]
    ELSE LET log1 == IF attempt > 0
                     THEN Append(log, <<"sleep", RetryBackoff(attempt)>>)
                     ELSE log
         IN IF req.malformed
            THEN [err |-> TRUE, exhausted |-> FALSE, attempts |-> attempt,
                  log |-> log1]
            ELSE LET log2 == Append(log1, <<"try", attempt>>)
                     r    == req.resp[attempt + 1]
                 IN IF r = "ok"
                    THEN [err |-> FALSE, exhausted |-> FALSE,
                          attempts |-> attempt + 1, log |-> log2]
                    ELSE IF r = "ratelimit"
                    THEN FetchLoop(req, attempt + 1,
                             Append(log2, <<"sleep", RateLimitBackoff(attempt)>>))
                    ELSE FetchLoop(req, attempt + 1, log2)

Fetch(req) == FetchLoop(req, 0, <<>>)

\* The requests the schedulers are driven with: one per outcome of Fetch that
\* a caller can tell apart (and the faulty ones only when faults are allowed).
OkRequest == [malformed |-> FALSE, resp |-> [i \in 1..maxRetries |-> "ok"]]

RetryOnceRequest ==
    [malformed |-> FALSE,
     resp |-> [i \in 1..maxRetries |-> IF i = 1 THEN "neterr" ELSE "ok"]]

ExhaustedRequest ==
    [malformed |-> FALSE,
     resp |-> [i \in 1..maxRetries |->
                  IF i = 2 THEN "ratelimit" ELSE "status"]]

MalformedRequest ==
    [malformed |-> TRUE, resp |-> [i \in 1..maxRetries |-> "ok"]]

SchedRequests(faulty) ==
    IF faulty
    THEN {OkRequest, RetryOnceRequest, ExhaustedRequest, MalformedRequest}
    ELSE {OkRequest}

\* what a request takes from the budget of faults of the run
RequestCost(req) == IF req = OkRequest THEN 0 ELSE 1

(***************************************************************************)
(* The remote source of the api engine                                     *)
(***************************************************************************)

APICat(name, slug, parent, count) ==
    [name |-> name, slug |-> slug, parent |-> parent, count |-> count]

\* One feed of the categories endpoint: the answer to the request of each
\* page, a status and the decoded array, and the status the same request
\* would get if it were sent again. Pages past the last one are empty.
Answer(status, again, categories) ==
    [status |-> status, again |-> again, cats |-> categories]

ApiFeedThree ==
    << Answer(200, 200, << APICat("A", "A", 0, 3), APICat("B", "B", 0, 1),
                           APICat("Sub", "sub", 7, 4) >>),
       Answer(200, 200, << APICat("C", "C", 0, 1),
                           APICat("Uncategorized", "uncategorized", 0, 2) >>) >>

ApiFeedTwo ==
    << Answer(200, 200, << APICat("A", "A", 0, 3), APICat("B", "B", 0, 1),
                           APICat("Old", "old", 0, 0) >>) >>

ApiFeedNone ==
    << Answer(200, 200, << APICat("Sub", "sub", 7, 4),
                           APICat("Old", "old", 0, 0),
                           APICat("Uncategorized", "uncategorized", 0, 2) >>) >>

ApiFeedDown == << Answer(500, 500, <<>>) >>

ApiFeedDownLater ==
    << Answer(200, 200, << APICat("A", "A", 0, 3) >>),
       Answer(500, 500, <<>>) >>

\* the first request fails and the same request, sent again, would succeed
ApiFeedFlaky ==
    << Answer(503, 200, << APICat("A", "A", 0, 3), APICat("B", "B", 0, 1) >>) >>

\* a single category, whose second page repeats the first
ApiFeedRepeat == << Answer(200, 200, << APICat("R", "R", 0, 2) >>) >>

ApiFeeds(faulty) ==
    IF faulty
    THEN {ApiFeedThree, ApiFeedTwo, ApiFeedNone, ApiFeedRepeat, ApiFeedDown,
          ApiFeedDownLater, ApiFeedFlaky}
    ELSE {ApiFeedThree, ApiFeedTwo, ApiFeedNone, ApiFeedRepeat}

ignoreSlugs == {"uncategorized"}

\* fetchCategories of the api engine, from page number "page" on, with the
\* categories kept so far: one request per page and no retry; the first
\* failing request fails the discovery; the first empty page ends it.
RECURSIVE ApiFetchCategoriesFrom(_, _, _)
ApiFetchCategoriesFrom(feed, page, categories) ==
    LET answer == IF page <= Len(feed) THEN feed[page]
                  ELSE Answer(200, 200, <<>>)
    IN IF answer.status # 200
       THEN [err |-> TRUE, cats |-> {}]
       ELSE IF Len(answer.cats) = 0
       THEN [err |-> FALSE, cats |-> categories]
       ELSE ApiFetchCategoriesFrom(feed, page + 1,
                categories \cup
                {c.name : c \in {x \in Range(answer.cats) :
                                   /\ x.parent = 0
                                   /\ x.count > 0
                                   /\ x.slug \notin ignoreSlugs}})

ApiFetchCategories(feed) == ApiFetchCategoriesFrom(feed, 1, {})

APIProduct(name, permalink) == [name |-> name, permalink |-> permalink]

\* The products endpoint: the decoded array for a category and a page.
\*   A: two pages of products, then empty. u2 and u3 carry the same name.
\*   B: one page, with u1 again (a product in two categories).
\*   C: no product on the first page.
\*   R: the same product on the first page and again on the second, then
\*      empty.
ApiPage(slug, page) ==
    IF slug = "A" /\ page = 1
    THEN << APIProduct("n2", "u2"), APIProduct("n1", "u1") >>
    ELSE IF slug = "A" /\ page = 2 THEN << APIProduct("n2", "u3") >>
    ELSE IF slug = "B" /\ page = 1 THEN << APIProduct("n1", "u1") >>
    ELSE IF slug = "R" /\ page \in {1, 2} THEN << APIProduct("n4", "u4") >>
    ELSE <<>>

(***************************************************************************)
(* Products, sorting and the output file                                   *)
(***************************************************************************)

Product(nombre, link, categoria) ==
    [nombre |-> nombre, link |-> link, categoria |-> categoria]

\* parseProducts: one Product per API product, in order, under the category
\* of the task.
parseProducts(apiProducts, categoryName) ==
    [i \in 1..Len(apiProducts) |->
        Product(apiProducts[i].name, apiProducts[i].permalink, categoryName)]

\* Go's < on the strings of the model
StrRank(s) ==
    CASE s = ""   -> 0
      [] s = "A"  -> 1
      [] s = "B"  -> 2
      [] s = "C"  -> 3
      [] s = "General" -> 4
      [] s = "R"  -> 5
      [] s = "n1" -> 6
      [] s = "n2" -> 7
      [] s = "n4" -> 8
      [] OTHER    -> 9

StrLess(a, b) == StrRank(a) < StrRank(b)

\* a less function that forgets the name
ProductLess_CategoryOnly(p, q) == StrLess(p.categoria, q.categoria)

\* the less function given to sort.Slice
ProductLess(p, q) ==
    IF p.categoria # q.categoria
    THEN StrLess(p.categoria, q.categoria)
    ELSE StrLess(p.nombre, q.nombre)

\* every way of putting x into the sorted sequence s that keeps it sorted
Insertions(x, s) ==
    {SubSeq(s, 1, k) \o <<x>> \o SubSeq(s, k + 1, Len(s)) :
        k \in {j \in 0..Len(s) :
                 /\ \A i \in 1..j : ~ProductLess(x, s[i])
                 /\ \A i \in (j + 1)..Len(s) : ~ProductLess(s[i], x)}}

\* sort.Slice: the slice ends sorted by its less function; the sort is not
\* stable, so elements that compare equal end in any order.
RECURSIVE SortSlice(_)
SortSlice(s) ==
    IF s = <<>> THEN {<<>>}
    ELSE UNION {Insertions(Head(s), t) : t \in SortSlice(Tail(s))}

\* The output file: whether it holds a whole JSON document, and the products
\* of that document.
NoFile == [valid |-> FALSE, data |-> <<>>]

\* what a call of writeJSON can do:
\*   "ok"        the document is written;
\*   "untouched" serialising or opening fails, the file is left as it was;
\*   "truncated" os.WriteFile fails after it has truncated the file.
WriteOutcomes(faulty) ==
    IF faulty THEN {"ok", "untouched", "truncated"} ELSE {"ok"}

\* a writeJSON that writes somewhere else: the file stays as it was
writeJSON_ElsewherePath(products, file, outcome) == file

writeJSON(products, file, outcome) ==
    CASE outcome = "ok"        -> [valid |-> TRUE, data |-> products]
      [] outcome = "untouched" -> file
      [] OTHER                 -> NoFile

WriteFailed(outcome) == outcome # "ok"

\* what a write takes from the budget of faults of the run
WriteCost(outcome) == IF WriteFailed(outcome) THEN 1 ELSE 0

(***************************************************************************)
(* State                                                                   *)
(***************************************************************************)

VARIABLES
    variant,        \* "api" or "html": which engine runs
    faultsLeft,     \* how many more requests and writes may fail in this run
    feed,           \* what the remote serves to category discovery
    numWorkers,     \* flagWorkers
    runPc,          \* where main/run stands
    cats,           \* the discovered categories (the keys of the map)
    seedLeft,       \* api: categories the seeding loop has still to visit
    seedCur,        \* api: category counted in pending and not yet sent
    tasksCh,        \* api: the buffered tasks channel
    tasksClosed,    \* api: close(tasksCh) has run
    results,        \* the buffered results channel
    resultsClosed,  \* close(results) has run
    pending,        \* api: the atomic pending counter
    wg,             \* the WaitGroup counter
    wpc,            \* where each worker stands
    wtask,          \* the task (api) or entry (html) a worker holds
    wbatch,         \* the products a worker has parsed and not yet sent
    monPc,          \* api: where the monitor goroutine stands
    allProducts,    \* allProducts (api) / products (html) of run
    counts,         \* products counted per category
    outFile,        \* the file at outputPath
    lastWrite,      \* the last call of writeJSON: which one and its outcome
    catsLeft,       \* html: categories the listing loop has still to visit
    seen,           \* html: the seen map of run
    allEntries,     \* html: allEntries of run
    jobs,           \* html: the buffered jobs channel
    jobsClosed,     \* html: close(jobs) has run
    resolved,       \* history: every task resolved so far, with its outcome
    fetched,        \* history: every fetch made for a task, with its result
    arrival,        \* history: the products in the order run received them
    runNo,          \* history: 1 in the first run, 2 in a re-run
    prevOut,        \* history: the file the previous run left
    fetchCall,      \* one call of fetch on its own: request, result
    productCall     \* one conversion of a source record into a Product

cfgVars    == <<variant, feed, numWorkers>>
seedVars   == <<seedLeft, seedCur>>
chanVars   == <<tasksCh, tasksClosed, results, resultsClosed, pending, wg>>
workerVars == <<wpc, wtask, wbatch>>
sinkVars   == <<allProducts, counts, outFile, lastWrite, arrival>>
listVars   == <<catsLeft, seen, allEntries, jobs, jobsClosed>>
rerunVars  == <<runNo, prevOut>>

histVars   == <<resolved, fetched>>

vars == <<fetchCall, productCall, cfgVars, faultsLeft, runPc, cats, seedVars, chanVars, workerVars,
          monPc, sinkVars, listVars, histVars, rerunVars>>

\* The record of a call of writeJSON, for the history: which call ("reset",
\* "batch" or "final"), its outcome and, when it failed, the file as it was
\* before the call.
WriteRecord(kind, outcome, file) ==
    [kind |-> kind, outcome |-> outcome,
     before |-> IF outcome = "ok" THEN [valid |-> FALSE, data |-> <<>>]
                ELSE file]

NoWrite == WriteRecord(None, "ok", <<>>)

\* One call of fetch taken on its own: the request and, once the call has
\* returned, its result.
Call(req, returned, out) == [req |-> req, returned |-> returned, out |-> out]

NoResult == [err |-> FALSE, exhausted |-> FALSE, attempts |-> 0, log |-> <<>>]

NoCall == Call(OkRequest, FALSE, NoResult)

\* the state of a run that has not started, whatever the configuration
Fresh ==
    /\ runPc = "discover"
    /\ cats = {}
    /\ seedLeft = {}
    /\ seedCur = None
    /\ tasksCh = <<>>
    /\ tasksClosed = FALSE
    /\ results = <<>>
    /\ resultsClosed = FALSE
    /\ pending = 0
    /\ wg = 0
    /\ wpc = [w \in Workers |-> "off"]
    /\ wtask = [w \in Workers |-> NoTask]
    /\ wbatch = [w \in Workers |-> <<>>]
    /\ monPc = "off"
    /\ allProducts = <<>>
    /\ counts = [c \in {} |-> 0]
    /\ lastWrite = NoWrite
    /\ catsLeft = {}
    /\ seen = {}
    /\ allEntries = <<>>
    /\ jobs = <<>>
    /\ jobsClosed = FALSE
    /\ resolved = {}
    /\ fetched = {}
    /\ arrival = <<>>

(***************************************************************************)
(* The api engine: main, run, worker and the two helper goroutines         *)
(***************************************************************************)

Task(categoryName, page) == [categoryName |-> categoryName, page |-> page]

\* counts[p.Categoria]++ for every product of the batch
RECURSIVE CountBatch(_, _)
CountBatch(cnt, batch) ==
    IF batch = <<>> THEN cnt
    ELSE LET c == Head(batch).categoria
             n == IF c \in DOMAIN cnt THEN cnt[c] ELSE 0
         IN CountBatch([x \in DOMAIN cnt \cup {c} |->
                           IF x = c THEN n + 1 ELSE cnt[x]],
                       Tail(batch))

\* main: fetchCategories, fatal on an error and on an empty map
MainDiscover ==
    /\ variant = "api"
    /\ runPc = "discover"
    /\ LET r == ApiFetchCategories(feed)
       IN IF r.err \/ r.cats = {}
          THEN /\ runPc' = "fatal"
               /\ cats' = cats
          ELSE /\ runPc' = "reset"
               /\ cats' = r.cats
    /\ UNCHANGED <<fetchCall, productCall, cfgVars, faultsLeft, seedVars, chanVars, workerVars,
                   monPc, sinkVars, listVars, histVars, rerunVars>>

\* a reset whose error is dropped
RunReset_ErrorIgnored ==
    /\ runPc = "reset"
    /\ \E outcome \in WriteOutcomes(faultsLeft > 0) :
         /\ outFile' = writeJSON(<<>>, outFile, outcome)
         /\ lastWrite' = WriteRecord("reset", outcome, outFile)
         /\ faultsLeft' = faultsLeft - WriteCost(outcome)
         /\ runPc' = "launch"
    /\ UNCHANGED <<fetchCall, productCall, cfgVars, cats, seedVars, chanVars, workerVars, monPc,
                   allProducts, counts, arrival, listVars, histVars,
                   rerunVars>>

\* run: reset the JSON file; an error is returned
RunReset ==
    /\ runPc = "reset"
    /\ \E outcome \in WriteOutcomes(faultsLeft > 0) :
         /\ outFile' = writeJSON(<<>>, outFile, outcome)
         /\ lastWrite' = WriteRecord("reset", outcome, outFile)
         /\ faultsLeft' = faultsLeft - WriteCost(outcome)
         /\ runPc' = IF WriteFailed(outcome) THEN "failed" ELSE "launch"
    /\ UNCHANGED <<fetchCall, productCall, cfgVars, cats, seedVars, chanVars, workerVars, monPc,
                   allProducts, counts, arrival, listVars, histVars,
                   rerunVars>>

\* run: launch the workers
RunLaunch ==
    /\ variant = "api"
    /\ runPc = "launch"
    /\ wpc' = [w \in Workers |-> IF w <= numWorkers THEN "recv" ELSE "off"]
    /\ wg' = numWorkers
    /\ seedLeft' = cats
    /\ runPc' = "seed"
    /\ UNCHANGED <<fetchCall, productCall, cfgVars, faultsLeft, cats, seedCur, tasksCh, tasksClosed,
                   results, resultsClosed, pending, wtask, wbatch, monPc,
                   sinkVars, listVars, histVars, rerunVars>>

\* run, seeding loop: pending.Add(1) for the next category of the map
SeedRegister ==
    /\ runPc = "seed"
    /\ seedCur = None
    /\ \E c \in seedLeft :
         /\ seedCur' = c
         /\ seedLeft' = seedLeft \ {c}
    /\ pending' = pending + 1
    /\ UNCHANGED <<fetchCall, productCall, cfgVars, faultsLeft, runPc, cats, tasksCh, tasksClosed,
                   results, resultsClosed, wg, workerVars, monPc, sinkVars,
                   listVars, histVars, rerunVars>>

\* run, seeding loop: tasksCh <- page 1 of the category; blocks while full
SeedSend ==
    /\ runPc = "seed"
    /\ seedCur # None
    /\ Len(tasksCh) < TasksCap
    /\ tasksCh' = Append(tasksCh, Task(seedCur, 1))
    /\ seedCur' = None
    /\ UNCHANGED <<fetchCall, productCall, cfgVars, faultsLeft, runPc, cats, seedLeft, tasksClosed,
                   results, resultsClosed, pending, wg, workerVars, monPc,
                   sinkVars, listVars, histVars, rerunVars>>

\* run: start the monitor goroutine and the goroutine that closes results,
\* then enter the collecting loop
RunStartMonitor ==
    /\ variant = "api"
    /\ runPc = "seed"
    /\ seedCur = None
    /\ seedLeft = {}
    /\ monPc' = "poll"
    /\ runPc' = "collect"
    /\ UNCHANGED <<fetchCall, productCall, cfgVars, faultsLeft, cats, seedVars, chanVars, workerVars,
                   sinkVars, listVars, histVars, rerunVars>>

\* a monitor that takes one task left for none
MonitorSeesDone_OffByOne(p) == p <= 1

\* the test of the monitor
MonitorSeesDone(p) == p <= 0

\* monitor: pending.Load() after a sleep; a positive reading loops
MonitorPoll ==
    /\ monPc = "poll"
    /\ MonitorSeesDone(pending)
    /\ monPc' = "close"
    /\ UNCHANGED <<fetchCall, productCall, cfgVars, faultsLeft, runPc, cats, seedVars, chanVars,
                   workerVars, sinkVars, listVars, histVars, rerunVars>>

\* monitor: close(tasksCh), return
MonitorClose ==
    /\ monPc = "close"
    /\ tasksClosed' = TRUE
    /\ monPc' = "done"
    /\ UNCHANGED <<fetchCall, productCall, cfgVars, faultsLeft, runPc, cats, seedVars, tasksCh,
                   results, resultsClosed, pending, wg, workerVars, sinkVars,
                   listVars, histVars, rerunVars>>

\* worker: for t := range tasks -- take a task, or leave when the channel is
\* closed and drained (deferred wg.Done)
WorkerRecv(w) ==
    /\ variant = "api"
    /\ wpc[w] = "recv"
    /\ IF tasksCh # <<>>
       THEN /\ wtask' = [wtask EXCEPT ![w] = Head(tasksCh)]
            /\ tasksCh' = Tail(tasksCh)
            /\ wpc' = [wpc EXCEPT ![w] = "fetch"]
            /\ wg' = wg
       ELSE /\ tasksClosed
            /\ wpc' = [wpc EXCEPT ![w] = "exited"]
            /\ wg' = wg - 1
            /\ UNCHANGED <<wtask, tasksCh>>
    /\ UNCHANGED <<fetchCall, productCall, cfgVars, faultsLeft, runPc, cats, seedVars, tasksClosed,
                   results, resultsClosed, pending, wbatch, monPc, sinkVars,
                   listVars, histVars, rerunVars>>

\* One resolved task, for the history: the task, how it ended ("completed",
\* "empty" or "skipped") and whether the worker slept the delay before it
\* went for the next task.
Resolution(task, outcome, slept) ==
    [task |-> task, outcome |-> outcome, slept |-> slept]

\* One fetch made for a task, for the history: the task, what the remote end
\* did to it and what Fetch returned (whether an error, whether after every
\* attempt had failed, and the number of requests sent).
Fetched(task, req, r) ==
    [task |-> task, req |-> req, err |-> r.err, exhausted |-> r.exhausted,
     attempts |-> r.attempts]

\* a worker that goes on to the next page after a failed fetch
WorkerFetch_PagesOnAfterError(w) ==
    /\ variant = "api"
    /\ wpc[w] = "fetch"
    /\ \E req \in SchedRequests(faultsLeft > 0) :
         LET r == Fetch(req)
             apiProducts == ApiPage(wtask[w].categoryName, wtask[w].page)
         IN /\ faultsLeft' = faultsLeft - RequestCost(req)
            /\ fetched' = fetched \cup {Fetched(wtask[w], req, r)}
            /\ IF r.err
               THEN /\ resolved' = resolved \cup
                          {Resolution(wtask[w], "skipped", FALSE)}
                    /\ wpc' = [wpc EXCEPT ![w] = "register"]
                    /\ UNCHANGED <<pending, wtask, wbatch>>
               ELSE IF Len(apiProducts) = 0
               THEN /\ pending' = pending - 1
                    /\ resolved' = resolved \cup
                          {Resolution(wtask[w], "empty", FALSE)}
                    /\ wpc' = [wpc EXCEPT ![w] = "recv"]
                    /\ wtask' = [wtask EXCEPT ![w] = NoTask]
                    /\ wbatch' = wbatch
               ELSE /\ wbatch' = [wbatch EXCEPT ![w] =
                          parseProducts(apiProducts, wtask[w].categoryName)]
                    /\ wpc' = [wpc EXCEPT ![w] = "send"]
                    /\ UNCHANGED <<pending, resolved, wtask>>
    /\ UNCHANGED <<fetchCall, productCall, cfgVars, runPc, cats, seedVars,
                   tasksCh, tasksClosed, results, resultsClosed, wg, monPc,
                   sinkVars, listVars, rerunVars>>

\* worker: fetchPage; on an error or an empty page pending.Add(-1) and
\* continue; else parseProducts
WorkerFetch(w) ==
    /\ variant = "api"
    /\ wpc[w] = "fetch"
    /\ \E req \in SchedRequests(faultsLeft > 0) :
         LET r == Fetch(req)
             apiProducts == ApiPage(wtask[w].categoryName, wtask[w].page)
         IN /\ faultsLeft' = faultsLeft - RequestCost(req)
            /\ fetched' = fetched \cup {Fetched(wtask[w], req, r)}
            /\ IF r.err
               THEN /\ pending' = pending - 1
                    /\ resolved' = resolved \cup
                          {Resolution(wtask[w], "skipped", FALSE)}
                    /\ wpc' = [wpc EXCEPT ![w] = "recv"]
                    /\ wtask' = [wtask EXCEPT ![w] = NoTask]
                    /\ wbatch' = wbatch
               ELSE IF Len(apiProducts) = 0
               THEN /\ pending' = pending - 1
                    /\ resolved' = resolved \cup
                          {Resolution(wtask[w], "empty", FALSE)}
                    /\ wpc' = [wpc EXCEPT ![w] = "recv"]
                    /\ wtask' = [wtask EXCEPT ![w] = NoTask]
                    /\ wbatch' = wbatch
               ELSE /\ wbatch' = [wbatch EXCEPT ![w] =
                          parseProducts(apiProducts, wtask[w].categoryName)]
                    /\ wpc' = [wpc EXCEPT ![w] = "send"]
                    /\ UNCHANGED <<pending, resolved, wtask>>
    /\ UNCHANGED <<fetchCall, productCall, cfgVars, runPc, cats, seedVars, tasksCh, tasksClosed,
                   results, resultsClosed, wg, monPc, sinkVars, listVars,
                   rerunVars>>

\* a worker that appends its batch to the product list itself
WorkerSend_AppendsToList(w) ==
    /\ variant = "api"
    /\ wpc[w] = "send"
    /\ Len(results) < ResultsCap
    /\ results' = Append(results, wbatch[w])
    /\ allProducts' = allProducts \o wbatch[w]
    /\ wbatch' = [wbatch EXCEPT ![w] = <<>>]
    /\ wpc' = [wpc EXCEPT ![w] = "register"]
    /\ UNCHANGED <<fetchCall, productCall, cfgVars, faultsLeft, runPc, cats,
                   seedVars, tasksCh, tasksClosed, resultsClosed, pending,
                   wg, wtask, monPc, counts, outFile, lastWrite, arrival,
                   listVars, histVars, rerunVars>>

\* worker: results <- products; blocks while the buffer is full
WorkerSend(w) ==
    /\ variant = "api"
    /\ wpc[w] = "send"
    /\ Len(results) < ResultsCap
    /\ results' = Append(results, wbatch[w])
    /\ wbatch' = [wbatch EXCEPT ![w] = <<>>]
    /\ wpc' = [wpc EXCEPT ![w] = "register"]
    /\ UNCHANGED <<fetchCall, productCall, cfgVars, faultsLeft, runPc, cats, seedVars, tasksCh,
                   tasksClosed, resultsClosed, pending, wg, wtask, monPc,
                   sinkVars, listVars, histVars, rerunVars>>

\* a worker that does not count the next page
WorkerRegister_Uncounted(w) ==
    /\ wpc[w] = "register"
    /\ wpc' = [wpc EXCEPT ![w] = "enqueue"]
    /\ UNCHANGED <<fetchCall, productCall, cfgVars, faultsLeft, runPc, cats, seedVars, chanVars,
                   wtask, wbatch, monPc, sinkVars, listVars, histVars,
                   rerunVars>>

\* worker: pending.Add(1) for the next page
WorkerRegister(w) ==
    /\ wpc[w] = "register"
    /\ pending' = pending + 1
    /\ wpc' = [wpc EXCEPT ![w] = "enqueue"]
    /\ UNCHANGED <<fetchCall, productCall, cfgVars, faultsLeft, runPc, cats, seedVars, tasksCh,
                   tasksClosed, results, resultsClosed, wg, wtask, wbatch,
                   monPc, sinkVars, listVars, histVars, rerunVars>>

\* a worker that enqueues the page after the next
WorkerEnqueue_SkipsAPage(w) ==
    /\ wpc[w] = "enqueue"
    /\ IF tasksClosed
       THEN /\ runPc' = "panic"
            /\ wpc' = [wpc EXCEPT ![w] = "panic"]
            /\ tasksCh' = tasksCh
       ELSE /\ Len(tasksCh) < TasksCap
            /\ tasksCh' = Append(tasksCh,
                              Task(wtask[w].categoryName, wtask[w].page + 2))
            /\ wpc' = [wpc EXCEPT ![w] = "retire"]
            /\ runPc' = runPc
    /\ UNCHANGED <<fetchCall, productCall, cfgVars, faultsLeft, cats,
                   seedVars, tasksClosed, results, resultsClosed, pending,
                   wg, wtask, wbatch, monPc, sinkVars, listVars, histVars,
                   rerunVars>>

\* worker: tasksCh <- the next page; blocks while the buffer is full; a send
\* on the closed channel panics and ends the process
WorkerEnqueue(w) ==
    /\ wpc[w] = "enqueue"
    /\ IF tasksClosed
       THEN /\ runPc' = "panic"
            /\ wpc' = [wpc EXCEPT ![w] = "panic"]
            /\ tasksCh' = tasksCh
       ELSE /\ Len(tasksCh) < TasksCap
            /\ tasksCh' = Append(tasksCh,
                              Task(wtask[w].categoryName, wtask[w].page + 1))
            /\ wpc' = [wpc EXCEPT ![w] = "retire"]
            /\ runPc' = runPc
    /\ UNCHANGED <<fetchCall, productCall, cfgVars, faultsLeft, cats, seedVars, tasksClosed, results,
                   resultsClosed, pending, wg, wtask, wbatch, monPc,
                   sinkVars, listVars, histVars, rerunVars>>

\* worker: pending.Add(-1) for the task just done, then time.Sleep(delay),
\* which touches nothing shared, and back to the head of the loop
WorkerRetire(w) ==
    /\ wpc[w] = "retire"
    /\ pending' = pending - 1
    /\ resolved' = resolved \cup
          {Resolution(wtask[w], "completed", TRUE)}
    /\ wpc' = [wpc EXCEPT ![w] = "recv"]
    /\ wtask' = [wtask EXCEPT ![w] = NoTask]
    /\ UNCHANGED <<fetchCall, productCall, cfgVars, faultsLeft, runPc, cats, seedVars, tasksCh,
                   tasksClosed, results, resultsClosed, wg, wbatch, monPc,
                   sinkVars, listVars, fetched, rerunVars>>

\* a closer that does not wait for the workers
CloseResults_NoWait ==
    /\ runPc = "collect"
    /\ ~resultsClosed
    /\ resultsClosed' = TRUE
    /\ UNCHANGED <<fetchCall, productCall, cfgVars, faultsLeft, runPc, cats,
                   seedVars, tasksCh, tasksClosed, results, pending, wg,
                   workerVars, monPc, sinkVars, listVars, histVars,
                   rerunVars>>

\* the goroutine of run that waits for the workers: wg.Wait(); close(results)
CloseResults ==
    /\ runPc = "collect"
    /\ wg = 0
    /\ ~resultsClosed
    /\ resultsClosed' = TRUE
    /\ UNCHANGED <<fetchCall, productCall, cfgVars, faultsLeft, runPc, cats, seedVars, tasksCh,
                   tasksClosed, results, pending, wg, workerVars, monPc,
                   sinkVars, listVars, histVars, rerunVars>>

\* a collecting loop that writes the batch it has received, not the products
\* accumulated
RunCollectBatch_WritesBatchOnly ==
    /\ variant = "api"
    /\ runPc = "collect"
    /\ results # <<>>
    /\ LET batch == Head(results)
           all   == allProducts \o batch
       IN /\ results' = Tail(results)
          /\ allProducts' = all
          /\ arrival' = arrival \o batch
          /\ counts' = CountBatch(counts, batch)
          /\ \E outcome \in WriteOutcomes(faultsLeft > 0) :
               /\ outFile' = writeJSON(batch, outFile, outcome)
               /\ lastWrite' = WriteRecord("batch", outcome, outFile)
               /\ faultsLeft' = faultsLeft - WriteCost(outcome)
    /\ UNCHANGED <<fetchCall, productCall, cfgVars, runPc, cats, seedVars, tasksCh,
                   tasksClosed, resultsClosed, pending, wg, workerVars, monPc,
                   listVars, histVars, rerunVars>>

\* run, collecting loop of the api engine: receive a batch, append it, count
\* it, write the file; a failed write is logged and the loop goes on
RunCollectBatch ==
    /\ variant = "api"
    /\ runPc = "collect"
    /\ results # <<>>
    /\ LET batch == Head(results)
           all   == allProducts \o batch
       IN /\ results' = Tail(results)
          /\ allProducts' = all
          /\ arrival' = arrival \o batch
          /\ counts' = CountBatch(counts, batch)
          /\ \E outcome \in WriteOutcomes(faultsLeft > 0) :
               /\ outFile' = writeJSON(all, outFile, outcome)
               /\ lastWrite' = WriteRecord("batch", outcome, outFile)
               /\ faultsLeft' = faultsLeft - WriteCost(outcome)
    /\ UNCHANGED <<fetchCall, productCall, cfgVars, runPc, cats, seedVars, tasksCh, tasksClosed,
                   resultsClosed, pending, wg, workerVars, monPc, listVars,
                   histVars, rerunVars>>

\* a collecting loop that ends as soon as it finds the channel empty
RunCollectEnd_OnEmptyQueue ==
    /\ runPc = "collect"
    /\ results = <<>>
    /\ runPc' = "final"
    /\ UNCHANGED <<fetchCall, productCall, cfgVars, faultsLeft, cats, seedVars, chanVars,
                   workerVars, monPc, sinkVars, listVars, histVars, rerunVars>>

\* run: the results channel is closed and drained, the loop ends
RunCollectEnd ==
    /\ runPc = "collect"
    /\ results = <<>>
    /\ resultsClosed
    /\ runPc' = "final"
    /\ UNCHANGED <<fetchCall, productCall, cfgVars, faultsLeft, cats, seedVars, chanVars, workerVars,
                   monPc, sinkVars, listVars, histVars, rerunVars>>

\* run: sort.Slice by category then name, the final writeJSON; its error is
\* returned
RunFinalWrite ==
    /\ runPc = "final"
    /\ \E sorted \in SortSlice(allProducts) :
         /\ allProducts' = sorted
         /\ \E outcome \in WriteOutcomes(faultsLeft > 0) :
              /\ outFile' = writeJSON(sorted, outFile, outcome)
              /\ lastWrite' = WriteRecord("final", outcome, outFile)
              /\ faultsLeft' = faultsLeft - WriteCost(outcome)
              /\ runPc' = IF WriteFailed(outcome) THEN "failed" ELSE "done"
    /\ UNCHANGED <<fetchCall, productCall, cfgVars, cats, seedVars, chanVars, workerVars, monPc,
                   counts, arrival, listVars, histVars, rerunVars>>

(***************************************************************************)
(* The remote source of the html engine                                    *)
(***************************************************************************)

\* what the shop page yields to the category extractor
HtmlShopTwo == [cats |-> {"A", "B"}]

HtmlShopNone == [cats |-> {}]

HtmlShops == {HtmlShopTwo, HtmlShopNone}

\* last page number the listing loop can reach on the listings below
MaxListPage == 3

Link(url, img) == [url |-> url, img |-> img]

\* A listing page: the product links in document order, each with the image
\* found near it, and whether a link to the next page is present.
\*   A: u2 u1 | u1 u3 | u3 again on every later page, always with a next link
\*   B: u1 u4, no next link (u1 is listed under A too)
HtmlPage(catName, page) ==
    IF catName = "A" /\ page = 1
    THEN [links |-> << Link("u2", ""), Link("u1", "t1") >>, next |-> TRUE]
    ELSE IF catName = "A" /\ page = 2
    THEN [links |-> << Link("u1", "t1"), Link("u3", "t3") >>, next |-> TRUE]
    ELSE IF catName = "A"
    THEN [links |-> << Link("u3", "t3") >>, next |-> TRUE]
    ELSE IF catName = "B" /\ page = 1
    THEN [links |-> << Link("u1", ""), Link("u4", "") >>, next |-> FALSE]
    ELSE [links |-> <<>>, next |-> FALSE]

\* the name a detail page shows: u2 and u3 show the same name
DetailName(url) ==
    CASE url = "u1" -> "n1"
      [] url = "u2" -> "n2"
      [] url = "u3" -> "n2"
      [] OTHER      -> "n4"

(***************************************************************************)
(* The html engine: run, collectFromCategory, scrapeProduct, worker        *)
(***************************************************************************)

Entry(url, imagen64, category) ==
    [url |-> url, imagen64 |-> imagen64, category |-> category]

\* the links of one page that are not yet in the seen map become entries
RECURSIVE NewEntries(_, _, _)
NewEntries(links, seenUrls, catName) ==
    IF links = <<>> THEN <<>>
    ELSE IF Head(links).url \in seenUrls
         THEN NewEntries(Tail(links), seenUrls, catName)
         ELSE <<Entry(Head(links).url, Head(links).img, catName)>> \o
              NewEntries(Tail(links), seenUrls \cup {Head(links).url}, catName)

\* collectFromCategory from page number "page" on: stop at a failed fetch, at
\* a page without new links and at a page without a link to the next page.
\* reqs gives the request of each page. The result is the entries, the page
\* whose fetch failed, if any, and the last page requested.
RECURSIVE CollectFrom(_, _, _, _)
CollectFrom(catName, page, entries, reqs) ==
    LET r == Fetch(reqs[page])
    IN IF r.err
       THEN [entries |-> entries, failed |-> page, last |-> page,
             fetch |-> r]
       ELSE LET body  == HtmlPage(catName, page)
                found == NewEntries(body.links,
                             {entries[i].url : i \in 1..Len(entries)}, catName)
                all   == entries \o found
            IN IF Len(found) = 0 \/ ~body.next
               THEN [entries |-> all, failed |-> 0, last |-> page,
                     fetch |-> r]
               ELSE CollectFrom(catName, page + 1, all, reqs)

collectFromCategory(catName, reqs) == CollectFrom(catName, 1, <<>>, reqs)

\* a merge that does not look at the seen map
Unseen_KeepAll(entries, seenUrls) == entries

\* run, phase 2: the entries of one category that the seen map of run does
\* not hold yet, in order
RECURSIVE Unseen(_, _)
Unseen(entries, seenUrls) ==
    IF entries = <<>> THEN <<>>
    ELSE IF Head(entries).url \in seenUrls
         THEN Unseen(Tail(entries), seenUrls)
         ELSE <<Head(entries)>> \o
              Unseen(Tail(entries), seenUrls \cup {Head(entries).url})

\* scrapeProduct on a fetched detail page: the link is the entry's url, the
\* category the one of the entry
scrapeProduct(entry) ==
    Product(DetailName(entry.url), entry.url,
            IF entry.category # "" THEN entry.category ELSE "General")

\* the fetch of the shop page, for the history
DiscoverTask == Task("", 0)

\* run, phase 1: fetchCategories; its error is returned, an empty map is not
RunDiscover ==
    /\ variant = "html"
    /\ runPc = "discover"
    /\ \E req \in SchedRequests(faultsLeft > 0) :
         /\ faultsLeft' = faultsLeft - RequestCost(req)
         /\ fetched' = fetched \cup {Fetched(DiscoverTask, req, Fetch(req))}
         /\ IF Fetch(req).err
            THEN /\ runPc' = "failed"
                 /\ UNCHANGED <<cats, catsLeft>>
            ELSE /\ runPc' = "list"
                 /\ cats' = feed.cats
                 /\ catsLeft' = feed.cats
    /\ UNCHANGED <<fetchCall, productCall, cfgVars, seedVars, chanVars, workerVars, monPc,
                   sinkVars, seen, allEntries, jobs, jobsClosed, resolved,
                   rerunVars>>

\* run, phase 2, one turn of the loop over the map: collectFromCategory and
\* the merge of its entries under the seen map
RunCollectCategory ==
    /\ runPc = "list"
    /\ \E c \in catsLeft :
         \E reqs \in [1..MaxListPage -> SchedRequests(faultsLeft > 0)] :
            LET got   == collectFromCategory(c, reqs)
                fresh == Unseen(got.entries, seen)
                cost  == Cardinality({p \in 1..MaxListPage :
                                        RequestCost(reqs[p]) > 0})
            IN /\ cost <= faultsLeft
               /\ faultsLeft' = faultsLeft - cost
               /\ allEntries' = allEntries \o fresh
               /\ seen' = seen \cup {fresh[i].url : i \in 1..Len(fresh)}
               /\ catsLeft' = catsLeft \ {c}
               /\ resolved' = resolved \cup
                     {Resolution(Task(c, got.last),
                                 IF got.failed = 0 THEN "listed"
                                 ELSE "skipped", FALSE)}
               /\ fetched' = IF got.failed = 0 THEN fetched
                             ELSE fetched \cup
                                  {Fetched(Task(c, got.failed),
                                           reqs[got.failed], got.fetch)}
    /\ UNCHANGED <<fetchCall, productCall, cfgVars, runPc, cats, seedVars, chanVars, workerVars,
                   monPc, sinkVars, jobs, jobsClosed, rerunVars>>

\* run, phase 3: make the channels, launch the workers, send every entry
\* (the buffer holds them all, no send blocks) and close(jobs)
RunLaunchPool ==
    /\ runPc = "list"
    /\ catsLeft = {}
    /\ wpc' = [w \in Workers |-> IF w <= numWorkers THEN "recv" ELSE "off"]
    /\ wg' = numWorkers
    /\ jobs' = allEntries
    /\ jobsClosed' = TRUE
    /\ runPc' = "collect"
    /\ UNCHANGED <<fetchCall, productCall, cfgVars, faultsLeft, cats, seedVars, tasksCh, tasksClosed,
                   results, resultsClosed, pending, wtask, wbatch, monPc,
                   sinkVars, catsLeft, seen, allEntries, histVars,
                   rerunVars>>

\* a worker that reads the head of the job queue and leaves it there
PoolWorkerRecv_LeavesJob(w) ==
    /\ variant = "html"
    /\ wpc[w] = "recv"
    /\ IF jobs # <<>>
       THEN /\ wtask' = [wtask EXCEPT ![w] = Head(jobs)]
            /\ wpc' = [wpc EXCEPT ![w] = "fetch"]
            /\ wg' = wg
       ELSE /\ jobsClosed
            /\ wpc' = [wpc EXCEPT ![w] = "exited"]
            /\ wg' = wg - 1
            /\ wtask' = wtask
    /\ UNCHANGED <<fetchCall, productCall, cfgVars, faultsLeft, runPc, cats,
                   seedVars, tasksCh, tasksClosed, results, resultsClosed,
                   pending, wbatch, monPc, sinkVars, listVars, histVars,
                   rerunVars>>

\* worker: for entry := range jobs
PoolWorkerRecv(w) ==
    /\ variant = "html"
    /\ wpc[w] = "recv"
    /\ IF jobs # <<>>
       THEN /\ wtask' = [wtask EXCEPT ![w] = Head(jobs)]
            /\ jobs' = Tail(jobs)
            /\ wpc' = [wpc EXCEPT ![w] = "fetch"]
            /\ wg' = wg
       ELSE /\ jobsClosed
            /\ wpc' = [wpc EXCEPT ![w] = "exited"]
            /\ wg' = wg - 1
            /\ UNCHANGED <<wtask, jobs>>
    /\ UNCHANGED <<fetchCall, productCall, cfgVars, faultsLeft, runPc, cats, seedVars, tasksCh,
                   tasksClosed, results, resultsClosed, pending, wbatch,
                   monPc, sinkVars, catsLeft, seen, allEntries, jobsClosed,
                   histVars, rerunVars>>

\* a worker that returns on the error of scrapeProduct
PoolWorkerScrape_ReturnOnError(w) ==
    /\ variant = "html"
    /\ wpc[w] = "fetch"
    /\ \E req \in SchedRequests(faultsLeft > 0) :
         LET r == Fetch(req)
         IN /\ faultsLeft' = faultsLeft - RequestCost(req)
            /\ fetched' = fetched \cup {Fetched(wtask[w], req, r)}
            /\ IF r.err
               THEN /\ resolved' = resolved \cup
                          {Resolution(wtask[w], "skipped", FALSE)}
                    /\ wpc' = [wpc EXCEPT ![w] = "exited"]
                    /\ wg' = wg - 1
                    /\ wtask' = [wtask EXCEPT ![w] = NoTask]
                    /\ wbatch' = wbatch
               ELSE /\ wbatch' = [wbatch EXCEPT ![w] =
                          <<scrapeProduct(wtask[w])>>]
                    /\ wpc' = [wpc EXCEPT ![w] = "send"]
                    /\ UNCHANGED <<resolved, wtask, wg>>
    /\ UNCHANGED <<fetchCall, productCall, cfgVars, runPc, cats, seedVars, tasksCh, tasksClosed,
                   results, resultsClosed, pending, monPc, sinkVars,
                   listVars, rerunVars>>

\* worker: scrapeProduct; on an error log and continue
PoolWorkerScrape(w) ==
    /\ variant = "html"
    /\ wpc[w] = "fetch"
    /\ \E req \in SchedRequests(faultsLeft > 0) :
         LET r == Fetch(req)
         IN /\ faultsLeft' = faultsLeft - RequestCost(req)
            /\ fetched' = fetched \cup {Fetched(wtask[w], req, r)}
            /\ IF r.err
               THEN /\ resolved' = resolved \cup
                          {Resolution(wtask[w], "skipped", FALSE)}
                    /\ wpc' = [wpc EXCEPT ![w] = "recv"]
                    /\ wtask' = [wtask EXCEPT ![w] = NoTask]
                    /\ wbatch' = wbatch
               ELSE /\ wbatch' = [wbatch EXCEPT ![w] =
                          <<scrapeProduct(wtask[w])>>]
                    /\ wpc' = [wpc EXCEPT ![w] = "send"]
                    /\ UNCHANGED <<resolved, wtask>>
    /\ UNCHANGED <<fetchCall, productCall, cfgVars, runPc, cats, seedVars, chanVars, monPc, sinkVars,
                   listVars, rerunVars>>

\* worker: results <- p (the buffer holds one product per entry), then
\* time.Sleep(delay), which touches nothing shared, and back to the head of
\* the loop
PoolWorkerSend(w) ==
    /\ variant = "html"
    /\ wpc[w] = "send"
    /\ Len(results) < Len(allEntries)
    /\ results' = Append(results, wbatch[w][1])
    /\ wbatch' = [wbatch EXCEPT ![w] = <<>>]
    /\ resolved' = resolved \cup
          {Resolution(wtask[w], "completed", TRUE)}
    /\ wpc' = [wpc EXCEPT ![w] = "recv"]
    /\ wtask' = [wtask EXCEPT ![w] = NoTask]
    /\ UNCHANGED <<fetchCall, productCall, cfgVars, faultsLeft, runPc, cats, seedVars, tasksCh,
                   tasksClosed, resultsClosed, pending, wg, monPc, sinkVars,
                   listVars, fetched, rerunVars>>

\* run, collecting loop of the html engine: append the product, count it
RunCollectProduct ==
    /\ variant = "html"
    /\ runPc = "collect"
    /\ results # <<>>
    /\ results' = Tail(results)
    /\ allProducts' = Append(allProducts, Head(results))
    /\ arrival' = Append(arrival, Head(results))
    /\ counts' = CountBatch(counts, <<Head(results)>>)
    /\ UNCHANGED <<fetchCall, productCall, cfgVars, faultsLeft, runPc, cats, seedVars, tasksCh,
                   tasksClosed, resultsClosed, pending, wg, workerVars,
                   monPc, outFile, lastWrite, listVars, histVars, rerunVars>>

(***************************************************************************)
(* The fields of a Product: prices, stock, images, categories              *)
(*                                                                         *)
(* The three programs build a Product from one source record: the api      *)
(* program from one element of the products array (parseProducts), the two *)
(* html programs from one detail page and the listing entry that led to it *)
(* (scrapeProduct, with regular expressions in part_000 and with selectors *)
(* in main.go). Amounts are counted in hundredths, the precision the       *)
(* output is rounded to: 27.00 is 2700.                                    *)
(***************************************************************************)

\* longest breadcrumb trail of a detail page of the model
MaxCrumbs == 4

\* math.Round(n / d): to the nearest integer, halves away from zero
RoundDiv(n, d) ==
    IF n >= 0 THEN (2 * n + d) \div (2 * d)
    ELSE 0 - ((2 * (0 - n) + d) \div (2 * d))

\* strconv.Atoi on the strings of the model: whether it parses, and to what
Atoi(s) ==
    CASE s = "2450" -> [ok |-> TRUE, val |-> 2450]
      [] s = "2700" -> [ok |-> TRUE, val |-> 2700]
      [] s = "3000" -> [ok |-> TRUE, val |-> 3000]
      [] s = "-500" -> [ok |-> TRUE, val |-> 0 - 500]
      [] OTHER      -> [ok |-> FALSE, val |-> 0]

\* convertPrice: "" and an unparsable string give 0.0, an integer is divided
\* by 10^minorUnit and rounded to two decimals
convertPrice(priceStr, minorUnit) ==
    IF priceStr = "" THEN 0
    ELSE IF ~Atoi(priceStr).ok THEN 0
    ELSE RoundDiv(Atoi(priceStr).val * 100, Pow(10, minorUnit))

\* extractSrcsetURL: the srcset is its comma-separated entries, each entry
\* its whitespace-separated fields; the URL of the first entry of exactly
\* two fields whose second is the width, "" when there is none
RECURSIVE extractSrcsetURL(_, _)
extractSrcsetURL(srcset, width) ==
    IF srcset = <<>> THEN ""
    ELSE IF Len(Head(srcset)) = 2 /\ Head(srcset)[2] = width
         THEN Head(srcset)[1]
         ELSE extractSrcsetURL(Tail(srcset), width)

\* the ten fields of the output schema
FullProduct(nombre, precio, precioOriginal, enOferta, stock, imagen, imagen64, link, categoria, subcategorias) ==
    [nombre |-> nombre, precio |-> precio,
     precioOriginal |-> precioOriginal, enOferta |-> enOferta,
     stock |-> stock, imagen |-> imagen, imagen64 |-> imagen64,
     link |-> link, categoria |-> categoria,
     subcategorias |-> subcategorias]

\* The body of the loop of parseProducts: the Product of one API product
\* under the category name of the task.
ParsedProduct(ap, categoryName) ==
    LET hasImage == Len(ap.images) > 0
        imagen   == IF hasImage THEN ap.images[1].src ELSE ""
        srcset64 == IF hasImage
                    THEN extractSrcsetURL(ap.images[1].srcset, "100w")
                    ELSE ""
        imagen64 == IF hasImage /\ srcset64 = "" THEN imagen ELSE srcset64
        unit     == ap.prices.currency_minor_unit
        precio   == IF ap.on_sale /\ ap.prices.sale_price # ""
                    THEN convertPrice(ap.prices.sale_price, unit)
                    ELSE convertPrice(ap.prices.price, unit)
        precioOriginal == convertPrice(ap.prices.regular_price, unit)
        subcategorias  == [i \in 1..Len(ap.categories) |->
                              ap.categories[i].name]
    IN FullProduct(ap.name, precio, precioOriginal, ap.on_sale,
                   ap.stock_availability.text, imagen, imagen64,
                   ap.permalink, categoryName, subcategorias)

\* strconv.ParseFloat on the strings of the model: the value in hundredths,
\* 0 with an error
ParseFloat(s) ==
    CASE s = "5.00"    -> [ok |-> TRUE, val |-> 500]
      [] s = "-5.00"   -> [ok |-> TRUE, val |-> 0 - 500]
      [] s = "24.50"   -> [ok |-> TRUE, val |-> 2450]
      [] s = "27.00"   -> [ok |-> TRUE, val |-> 2700]
      [] s = "30.00"   -> [ok |-> TRUE, val |-> 3000]
      [] s = "1200.00" -> [ok |-> TRUE, val |-> 120000]
      [] OTHER         -> [ok |-> FALSE, val |-> 0]

\* strings.ReplaceAll(s, ",", "")
ReplaceCommas(s) == IF s = "1,200.00" THEN "1200.00" ELSE s

\* reFirstNum.FindString: the first run of a digit followed by digits and
\* commas, an optional point and digits
reFirstNum(s) ==
    CASE s = "-5.00"             -> "5.00"
      [] s = "$ 30.00 30.0 MXN"  -> "30.00"
      [] s \in {"", "n/a"}       -> ""
      [] OTHER                   -> s

\* parsePrice of part_000: commas removed, then ParseFloat, its error dropped
parsePriceRegex(s) == ParseFloat(ReplaceCommas(s)).val

\* parsePrice of main.go: commas removed, the first number taken, then
\* ParseFloat, its error dropped; 0 when there is no number
parsePriceQuery(s) ==
    LET m == reFirstNum(ReplaceCommas(s))
    IN IF m = "" THEN 0 ELSE ParseFloat(m).val

\* what reHiddenPrice captures in the element that carries itemprop="price":
\* its text when made of digits and points only, no match ("") otherwise
reHiddenPrice(text) ==
    IF text \in {"24.50", "27.00", "30.00"} THEN text ELSE ""

\* what rePrice captures in the visible price: the number after the "$"
rePrice(text) == IF text = "$ 30.00 30.0 MXN" THEN "30.00" ELSE ""

\* what reListPrice captures in the oe_default_price element: its text when
\* made of digits, commas and points only
reListPrice(text) ==
    IF text \in {"24.50", "30.00", "1,200.00"} THEN text ELSE ""

\* what reImgSrc captures: a src that starts with /web/image/product
reImgSrc(src) == IF src = "/web/image/product/1" THEN src ELSE ""

\* the selector img[src*='/web/image/product']: its src attribute
imgSelector(src) ==
    IF src \in {"/web/image/product/1", "http://cdn/web/image/product/1"}
    THEN src ELSE ""

absURL(rel) ==
    IF rel = "" \/ rel = "http://cdn/web/image/product/1" THEN rel
    ELSE "https://www.my-shop.mx" \o rel

\* strings.EqualFold(name, "inicio") or strings.EqualFold(name, "home")
IsHomeLabel(name) == name \in {"Home", "home", "inicio", "INICIO"}

\* the trimmed breadcrumb labels that are neither empty nor a home label
RECURSIVE KeptCrumbs(_)
KeptCrumbs(crumbs) ==
    IF crumbs = <<>> THEN <<>>
    ELSE IF Head(crumbs) # "" /\ ~IsHomeLabel(Head(crumbs))
         THEN <<Head(crumbs)>> \o KeptCrumbs(Tail(crumbs))
         ELSE KeptCrumbs(Tail(crumbs))

\* subcats = subcats[:len(subcats)-1] when there is any
DropLast(s) == IF Len(s) > 0 THEN SubSeq(s, 1, Len(s) - 1) ELSE s

\* The end of scrapeProduct, the same in both html programs: category and
\* subcategories from the entry's category and the breadcrumb trail.
CategoryOf(entryCategory, crumbs) ==
    LET subcats == DropLast(KeptCrumbs(crumbs))
    IN IF entryCategory # ""
       THEN [categoria |-> entryCategory,
             subcategorias |-> IF Len(subcats) = 0 THEN <<entryCategory>>
                               ELSE subcats]
       ELSE IF Len(subcats) > 0
       THEN [categoria |-> subcats[Len(subcats)], subcategorias |-> subcats]
       ELSE [categoria |-> "General", subcategorias |-> <<"General">>]

\* scrapeProduct of part_000 on a fetched detail page
ScrapedProductRegex(page, entry) ==
    LET hidden == reHiddenPrice(page.metaPrice)
        shown  == rePrice(page.shownPrice)
        precio == IF hidden # "" THEN parsePriceRegex(hidden)
                  ELSE IF shown # "" THEN parsePriceRegex(shown)
                  ELSE 0
        list   == reListPrice(page.strikePrice)
        onSale == list # "" /\ parsePriceRegex(list) > precio
        stock  == IF page.noExist THEN "Agotado"
                  ELSE IF page.addToCart THEN "Disponible"
                  ELSE "Desconocido"
        found  == absURL(reImgSrc(page.img))
        imagen == IF found = "" THEN entry.imagen64 ELSE found
        imagen64 == IF entry.imagen64 = "" THEN imagen ELSE entry.imagen64
        cat    == CategoryOf(entry.category, page.crumbs)
    IN FullProduct(page.name, precio,
                   IF onSale THEN parsePriceRegex(list) ELSE precio, onSale,
                   stock, imagen, imagen64, entry.url, cat.categoria,
                   cat.subcategorias)

\* scrapeProduct of main.go on a fetched detail page
ScrapedProductQuery(page, entry) ==
    LET precio == IF page.metaPrice # "" THEN ParseFloat(page.metaPrice).val
                  ELSE parsePriceQuery(page.shownPrice)
        hasDel == page.strikePrice # ""
        precioOriginal == IF hasDel THEN parsePriceQuery(page.strikePrice)
                          ELSE precio
        stock  == IF page.stockNote # "" THEN page.stockNote
                  ELSE IF page.noExist THEN "Agotado"
                  ELSE IF page.addToCart THEN "Disponible"
                  ELSE "Desconocido"
        imgSrc == imgSelector(page.img)
        imagen == IF imgSrc # "" THEN absURL(imgSrc) ELSE entry.imagen64
        imagen64 == IF entry.imagen64 = "" THEN imagen ELSE entry.imagen64
        cat    == CategoryOf(entry.category, page.crumbs)
    IN FullProduct(page.name, precio, precioOriginal,
                   hasDel /\ precioOriginal > precio, stock, imagen,
                   imagen64, entry.url, cat.categoria, cat.subcategorias)

\* One element of the products array, as decoded into APIProduct.
APIItem(name, permalink, on_sale, prices, images, categories, stockText) ==
    [name |-> name, permalink |-> permalink, on_sale |-> on_sale,
     prices |-> prices, images |-> images, categories |-> categories,
     stock_availability |-> [text |-> stockText]]

APIPrices(price, regular_price, sale_price, currency_minor_unit) ==
    [price |-> price, regular_price |-> regular_price,
     sale_price |-> sale_price, currency_minor_unit |-> currency_minor_unit]

APIImage(src, srcset) == [src |-> src, srcset |-> srcset]

\* What scrapeProduct looks at on a detail page: the name, the text of the
\* element with itemprop="price", the visible price, the struck-through or
\* default price, the text of the availability elements, the two markers of
\* the body, the src of the product image and the breadcrumb labels.
DetailPage(name, metaPrice, shownPrice, strikePrice, stockNote, noExist, addToCart, img, crumbs) ==
    [name |-> name, metaPrice |-> metaPrice, shownPrice |-> shownPrice,
     strikePrice |-> strikePrice, stockNote |-> stockNote,
     noExist |-> noExist, addToCart |-> addToCart, img |-> img,
     crumbs |-> crumbs]

\* An ordinary product of each source. The inputs of the model differ from
\* it in one group of fields at a time (prices, stock, images, categories):
\* the programs derive each group of output fields from its own group of
\* source fields.
BaseItem ==
    APIItem("n1", "u1", FALSE, APIPrices("2700", "2700", "", 2),
            << APIImage("i1", << <<"i1-64", "64w">>, <<"i1-100", "100w">> >>) >>,
            << [name |-> "Phones"], [name |-> "Cases"] >>, "In stock")

BasePage ==
    DetailPage("n1", "27.00", "", "", "", FALSE, TRUE,
               "/web/image/product/1",
               <<"Home", "Phones", "Cases", "My Product">>)

BaseEntry == Entry("u1", "t1", "Cases")

ApiInput(ap, categoryName) == [ap |-> ap, categoryName |-> categoryName]

HtmlInput(page, entry) == [page |-> page, entry |-> entry]

ApiPriceInputs ==
    {ApiInput([BaseItem EXCEPT !.on_sale = s,
                               !.prices = APIPrices(p, r, sp, u)], "Cases") :
        s \in BOOLEAN, p \in {"", "2700", "3000", "abc"},
        r \in {"", "2700", "3000"}, sp \in {"", "2450", "3000"},
        u \in {2, 3}}

ApiStockInputs ==
    {ApiInput([BaseItem EXCEPT !.stock_availability = [text |-> t]], "Cases") :
        t \in {"", "In stock", "Out of stock", "2 in stock"}}

ApiImageInputs ==
    {ApiInput([BaseItem EXCEPT !.images = i], "Cases") :
        i \in {<<>>,
               << APIImage("i1", <<>>) >>,
               << APIImage("i1", << <<"i1-64", "64w">> >>) >>,
               << APIImage("", << <<"i1-100", "100w">> >>) >>,
               << APIImage("", <<>>) >>,
               << APIImage("i1", << <<"i1-100", "100w">> >>),
                  APIImage("i2", <<>>) >>}}

ApiCategoryInputs ==
    {ApiInput([BaseItem EXCEPT !.categories = c], n) :
        c \in {<<>>, << [name |-> "Cases"] >>,
               << [name |-> "Phones"], [name |-> "Cases"] >>},
        n \in {"", "Cases"}}

ApiInputs ==
    ApiPriceInputs \cup ApiStockInputs \cup ApiImageInputs
        \cup ApiCategoryInputs

HtmlPriceInputs ==
    {HtmlInput([BasePage EXCEPT !.metaPrice = m, !.shownPrice = s,
                                !.strikePrice = d], BaseEntry) :
        m \in {"", "27.00", "-5.00", "1,200.00"},
        s \in {"", "$ 30.00 30.0 MXN"},
        d \in {"", "24.50", "30.00", "1,200.00", "n/a"}}

HtmlStockInputs ==
    {HtmlInput([BasePage EXCEPT !.stockNote = t, !.noExist = x,
                                !.addToCart = a], BaseEntry) :
        t \in {"", "En existencia"}, x \in BOOLEAN, a \in BOOLEAN}

HtmlImageInputs ==
    {HtmlInput([BasePage EXCEPT !.img = i],
               [BaseEntry EXCEPT !.imagen64 = t]) :
        i \in {"", "/web/image/product/1", "http://cdn/web/image/product/1"},
        t \in {"", "t1"}}

CrumbLabels == {"", "Home", "inicio", "Phones", "Cases", "My Product"}

Trails == UNION {[1..n -> CrumbLabels] : n \in 0..MaxCrumbs}

HtmlCategoryInputs ==
    {HtmlInput([BasePage EXCEPT !.crumbs = t],
               [BaseEntry EXCEPT !.category = c]) :
        t \in Trails, c \in {"", "Cases"}}

HtmlInputs ==
    HtmlPriceInputs \cup HtmlStockInputs \cup HtmlImageInputs
        \cup HtmlCategoryInputs

\* One conversion taken on its own: the program ("api" for part_002,
\* "regex" for part_000, "query" for main.go), the source record and, once
\* the function has returned, the Product.
Conversion(engine, src, returned, out) ==
    [engine |-> engine, src |-> src, returned |-> returned, out |-> out]

NoProduct == FullProduct("", 0, 0, FALSE, "", "", "", "", "", <<>>)

NoConversion ==
    Conversion("api", ApiInput(BaseItem, "Cases"), FALSE, NoProduct)

(***************************************************************************)
(* Specifications                                                          *)
(***************************************************************************)

Feeds(v, faulty) == IF v = "api" THEN ApiFeeds(faulty) ELSE HtmlShops

\* the configurations and sources a run is started with, given the number of
\* requests and writes that may fail in it
Start(budget) ==
    /\ variant \in {"api", "html"}
    /\ faultsLeft = budget
    /\ feed \in Feeds(variant, budget > 0)
    /\ numWorkers \in 1..MaxWorkers
    /\ outFile = NoFile
    /\ runNo = 1
    /\ prevOut = NoFile
    /\ fetchCall = NoCall
    /\ productCall = NoConversion
    /\ Fresh

Init == Start(MaxFaults)

InitNoFaults == Start(0)

WorkerStep(w) ==
    \/ WorkerRecv(w)
    \/ WorkerFetch(w)
    \/ WorkerSend(w)
    \/ WorkerRegister(w)
    \/ WorkerEnqueue(w)
    \/ WorkerRetire(w)
    \/ PoolWorkerRecv(w)
    \/ PoolWorkerScrape(w)
    \/ PoolWorkerSend(w)

Next ==
    \/ MainDiscover
    \/ RunReset
    \/ RunLaunch
    \/ SeedRegister
    \/ SeedSend
    \/ RunStartMonitor
    \/ MonitorPoll
    \/ MonitorClose
    \/ CloseResults
    \/ RunCollectBatch
    \/ RunCollectEnd
    \/ RunFinalWrite
    \/ RunDiscover
    \/ RunCollectCategory
    \/ RunLaunchPool
    \/ RunCollectProduct
    \/ \E w \in Workers : WorkerStep(w)

Spec == Init /\ [][Next]_vars

\* Every goroutine that can take a step eventually takes one.
Fairness ==
    /\ WF_vars(MainDiscover \/ RunReset \/ RunLaunch \/ SeedRegister
                \/ SeedSend \/ RunStartMonitor \/ RunCollectBatch
                \/ RunCollectEnd \/ RunFinalWrite \/ RunDiscover
                \/ RunCollectCategory \/ RunLaunchPool \/ RunCollectProduct)
    /\ WF_vars(MonitorPoll \/ MonitorClose)
    /\ WF_vars(CloseResults)
    /\ \A w \in Workers : WF_vars(WorkerStep(w))

FairSpec == Spec /\ Fairness

\* fetch called on its own, once for every request of the model
InitFetch ==
    /\ variant = "api"
    /\ faultsLeft = 0
    /\ feed = ApiFeedTwo
    /\ numWorkers = 1
    /\ outFile = NoFile
    /\ runNo = 1
    /\ prevOut = NoFile
    /\ fetchCall \in {Call(req, FALSE, NoResult) : req \in Requests}
    /\ productCall = NoConversion
    /\ Fresh

\* fetchPage / fetchHTML / fetchDoc: the call runs and returns
FetchCall ==
    /\ ~fetchCall.returned
    /\ fetchCall' = Call(fetchCall.req, TRUE, Fetch(fetchCall.req))
    /\ UNCHANGED <<productCall, cfgVars, faultsLeft, runPc, cats, seedVars, chanVars,
                   workerVars, monPc, sinkVars, listVars, histVars, rerunVars>>

SpecFetch == InitFetch /\ [][FetchCall]_vars

\* the three conversions called on their own, once for every source record
\* of the model
InitProduct ==
    /\ variant = "api"
    /\ faultsLeft = 0
    /\ feed = ApiFeedTwo
    /\ numWorkers = 1
    /\ outFile = NoFile
    /\ runNo = 1
    /\ prevOut = NoFile
    /\ fetchCall = NoCall
    /\ productCall \in
           {Conversion("api", i, FALSE, NoProduct) : i \in ApiInputs}
           \cup {Conversion(e, i, FALSE, NoProduct) :
                    e \in {"regex", "query"}, i \in HtmlInputs}
    /\ Fresh

\* the frame of a conversion: nothing but productCall changes
ConversionFrame ==
    UNCHANGED <<fetchCall, cfgVars, faultsLeft, runPc, cats, seedVars,
                chanVars, workerVars, monPc, sinkVars, listVars, histVars,
                rerunVars>>

\* parseProducts on one API product
ConvertParsed ==
    /\ productCall.engine = "api"
    /\ ~productCall.returned
    /\ productCall' =
           [productCall EXCEPT
               !.returned = TRUE,
               !.out = ParsedProduct(productCall.src.ap,
                                     productCall.src.categoryName)]
    /\ ConversionFrame

\* scrapeProduct of part_000 on one detail page
ConvertScrapedRegex ==
    /\ productCall.engine = "regex"
    /\ ~productCall.returned
    /\ productCall' =
           [productCall EXCEPT
               !.returned = TRUE,
               !.out = ScrapedProductRegex(productCall.src.page,
                                           productCall.src.entry)]
    /\ ConversionFrame

\* scrapeProduct of main.go on one detail page
ConvertScrapedQuery ==
    /\ productCall.engine = "query"
    /\ ~productCall.returned
    /\ productCall' =
           [productCall EXCEPT
               !.returned = TRUE,
               !.out = ScrapedProductQuery(productCall.src.page,
                                           productCall.src.entry)]
    /\ ConversionFrame

NextProduct == ConvertParsed \/ ConvertScrapedRegex \/ ConvertScrapedQuery

SpecProduct == InitProduct /\ [][NextProduct]_vars

\* The program is run again on the same source and configuration, the file
\* of the first run still in place.
Rerun ==
    /\ runPc = "done"
    /\ runNo = 1
    /\ runNo' = 2
    /\ prevOut' = outFile
    /\ runPc' = "discover"
    /\ cats' = {}
    /\ seedLeft' = {}
    /\ seedCur' = None
    /\ tasksCh' = <<>>
    /\ tasksClosed' = FALSE
    /\ results' = <<>>
    /\ resultsClosed' = FALSE
    /\ pending' = 0
    /\ wg' = 0
    /\ wpc' = [w \in Workers |-> "off"]
    /\ wtask' = [w \in Workers |-> NoTask]
    /\ wbatch' = [w \in Workers |-> <<>>]
    /\ monPc' = "off"
    /\ allProducts' = <<>>
    /\ counts' = [c \in {} |-> 0]
    /\ lastWrite' = NoWrite
    /\ catsLeft' = {}
    /\ seen' = {}
    /\ allEntries' = <<>>
    /\ jobs' = <<>>
    /\ jobsClosed' = FALSE
    /\ resolved' = {}
    /\ fetched' = {}
    /\ arrival' = <<>>
    /\ UNCHANGED <<fetchCall, productCall, cfgVars, faultsLeft, outFile>>

NextRerun == Next \/ Rerun

\* Two runs in a row on an unchanged source, with no failing request or write
SpecRerun == InitNoFaults /\ [][NextRerun]_vars

(***************************************************************************)
(* Properties                                                              *)
(***************************************************************************)

Done == runPc = "done"

\* the workers that hold a task not yet retired
Holding == {w \in Workers :
              wpc[w] \in {"fetch", "send", "register", "enqueue", "retire"}}

\* the follow-up tasks counted in pending and not yet on the channel
Registered ==
    Cardinality({w \in Workers : wpc[w] = "enqueue"}) +
    (IF seedCur # None THEN 1 ELSE 0)

\* no page task is queued, in flight or about to be enqueued
NoPageTaskLeft ==
    /\ tasksCh = <<>>
    /\ seedCur = None
    /\ seedLeft = {}
    /\ Holding = {}

\* the monitor has read the pending counter as zero
MonitorReadZero == variant = "api" /\ monPc \in {"close", "done"}

RECURSIVE FirstEmptyFrom(_, _)
FirstEmptyFrom(slug, page) ==
    IF Len(ApiPage(slug, page)) = 0 THEN page
    ELSE FirstEmptyFrom(slug, page + 1)

\* the first page of the category on which the source has no product
FirstEmptyPage(slug) == FirstEmptyFrom(slug, 1)

PageResolved(c, p) == \E r \in resolved : r.task = Task(c, p)

PageSkipped(c, p) ==
    \E r \in resolved : r.task = Task(c, p) /\ r.outcome = "skipped"

\* the page at which the pagination of the category ends: the first one
\* whose fetch failed after retries if there is one, else the first empty one
LastPage(c) ==
    IF \E p \in 1..FirstEmptyPage(c) : PageSkipped(c, p)
    THEN CHOOSE p \in 1..FirstEmptyPage(c) :
            /\ PageSkipped(c, p)
            /\ \A q \in 1..(p - 1) : ~PageSkipped(c, q)
    ELSE FirstEmptyPage(c)

\* C1, as claimed: when the monitor reads pending as zero, no page task is
\* queued, in flight or about to be enqueued, and every page of every
\* category up to its first empty page has been enqueued and resolved.
C1_ClosesAfterFirstEmptyPage ==
    MonitorReadZero =>
        /\ NoPageTaskLeft
        /\ \A c \in cats : \A p \in 1..FirstEmptyPage(c) : PageResolved(c, p)

\* C1, amended: when the monitor reads pending as zero, no page task is
\* queued, in flight or about to be enqueued, and every page of every
\* category up to its first empty page, or up to its first page whose fetch
\* failed after retries, has been enqueued and resolved.
C1_ClosesAfterLastPage ==
    MonitorReadZero =>
        /\ NoPageTaskLeft
        /\ \A c \in cats : \A p \in 1..LastPage(c) : PageResolved(c, p)

\* two workers have paginated A to its empty third page and B to its empty
\* second page, and the monitor has closed the channel
C1_Witness ==
    /\ variant = "api"
    /\ numWorkers = 2
    /\ monPc = "done"
    /\ Resolution(Task("A", 3), "empty", FALSE) \in resolved
    /\ Resolution(Task("B", 2), "empty", FALSE) \in resolved

\* C2: pending is never negative and counts every task exactly once from
\* before it is put on the channel until it resolves: it equals the tasks in
\* the channel plus the tasks held by workers plus the tasks counted and not
\* yet sent, so it is at least the tasks queued plus the tasks held.
C2_PendingCountsTasks ==
    variant = "api" =>
        /\ pending >= 0
        /\ pending = Len(tasksCh) + Cardinality(Holding) + Registered
        /\ pending >= Len(tasksCh) + Cardinality(Holding)

\* a worker has put the next page on the channel and has not yet retired
\* the page it holds: both are counted
C2_Witness ==
    /\ variant = "api"
    /\ \E w \in Workers : wpc[w] = "retire"
    /\ Len(tasksCh) = 1
    /\ pending >= 2

\* C3: under fair scheduling the run ends: main returns from run, with or
\* without an error.
C3_RunTerminates == <>(runPc \in {"done", "failed", "fatal"})

\* C4: the final output holds no two records with the same link.
C4_NoDuplicateLinks ==
    Done => \A i, j \in 1..Len(outFile.data) :
               outFile.data[i].link = outFile.data[j].link => i = j

LinksOf(products) == {products[i].link : i \in 1..Len(products)}

FetchOf(entry) == {f \in fetched : f.task = entry}

\* the remote end fails every one of the three attempts of the fetch
AllAttemptsFail(req) == \A i \in DOMAIN req.resp : req.resp[i] # "ok"

C7_OutputSorted ==
    Done => \A i, j \in 1..Len(outFile.data) :
               i < j =>
                  LET p == outFile.data[i]
                      q == outFile.data[j]
                  IN \/ StrRank(p.categoria) < StrRank(q.categoria)
                     \/ /\ p.categoria = q.categoria
                        /\ StrRank(p.nombre) <= StrRank(q.nombre)

\* the products did not arrive in the order of the output
C7_Witness ==
    /\ Done
    /\ Len(outFile.data) >= 3
    /\ arrival # outFile.data

\* C8: a second run on the unchanged source leaves the same file as the
\* first.
C8_RerunSameOutput == (runNo = 2 /\ Done) => outFile = prevOut

\* C9: when discovery has found no category, no worker is launched and no
\* output file is written.
C9_NoCategoriesIsFatal ==
    (runPc # "discover" /\ cats = {}) =>
        /\ \A w \in Workers : wpc[w] = "off"
        /\ runPc \in {"fatal", "failed"}
        /\ outFile = NoFile

\* C10, as claimed: every failed write is fatal where it occurs, and leaves
\* the file as it was.
C10_EveryWriteFailureFatal ==
    WriteFailed(lastWrite.outcome) =>
        /\ runPc = "failed"
        /\ outFile = lastWrite.before

\* C10, amended: a failed reset write and a failed final write are fatal
\* where they occur; a failed write of a batch is not: run goes on
\* collecting and makes its final write; after a failed write the file is as
\* it was before unless the failing call had truncated it.
C10_ResetAndFinalWriteFailureFatal ==
    WriteFailed(lastWrite.outcome) =>
        /\ lastWrite.kind \in {"reset", "final"} => runPc = "failed"
        /\ lastWrite.kind = "batch" => runPc \in {"collect", "final"}
        /\ outFile \in {lastWrite.before, NoFile}
        /\ lastWrite.outcome = "untouched" => outFile = lastWrite.before

\* the write of a batch has failed, after an earlier write had succeeded,
\* and run is still collecting
C10_Witness ==
    /\ lastWrite.kind = "batch"
    /\ WriteFailed(lastWrite.outcome)
    /\ lastWrite.before.valid
    /\ runPc = "collect"

\* the positions of the request attempts in the log of a fetch
Tries(log) == {i \in 1..Len(log) : log[i][1] = "try"}

NumTries(log) == Cardinality(Tries(log))

\* the request attempts of the log are numbered 0, 1, 2, ... in order
TriesInOrder(log) ==
    \A i \in Tries(log) :
        log[i][2] = Cardinality({j \in Tries(log) : j < i})

FetchReturned == fetchCall.returned

\* C11: one call of fetch makes at most 3 request attempts, in order; when
\* it returns content, its last attempt is the first one that the remote end
\* answers well and nothing follows it; whenever one of the 3 attempts would
\* succeed the call returns content; and when all 3 attempts fail the call
\* has made 3 attempts and returns an error.
C11_AtMostThreeAttempts ==
    FetchReturned =>
        LET req == fetchCall.req
            out == fetchCall.out
            n   == NumTries(out.log)
        IN /\ n <= 3
           /\ n = out.attempts
           /\ TriesInOrder(out.log)
           /\ ~out.err =>
                 /\ ~req.malformed
                 /\ n >= 1
                 /\ req.resp[n] = "ok"
                 /\ \A i \in 1..(n - 1) : req.resp[i] # "ok"
                 /\ out.log[Len(out.log)] = <<"try", n - 1>>
           /\ (~req.malformed /\ ~AllAttemptsFail(req)) => ~out.err
           /\ (~req.malformed /\ AllAttemptsFail(req)) => out.err /\ n = 3

\* a fetch whose first two attempts fail and whose third succeeds
C11_Witness ==
    /\ FetchReturned
    /\ ~fetchCall.req.malformed
    /\ fetchCall.req.resp = <<"neterr", "ratelimit", "ok">>
    /\ ~fetchCall.out.err
    /\ NumTries(fetchCall.out.log) = 3

\* the seconds slept between positions i and j of the log of a fetch
RECURSIVE SleptBetween(_, _, _)
SleptBetween(log, i, j) ==
    IF i + 1 >= j THEN 0
    ELSE (IF log[i + 1][1] = "sleep" THEN log[i + 1][2] ELSE 0) +
         SleptBetween(log, i + 1, j)

\* two request attempts of the log with no attempt between them
Consecutive(log, i, j) ==
    /\ i \in Tries(log)
    /\ j \in Tries(log)
    /\ i < j
    /\ \A k \in Tries(log) : ~(i < k /\ k < j)

\* C12: the wait of a fetch between two consecutive attempts depends on the
\* class of the failed attempt alone: 3^(a+1) seconds after a 429 answer to
\* the 0-based attempt a, and 2^n seconds, n the 0-based index of the next
\* attempt, after any other failure, with nothing added.
C12_WaitByClassAlone ==
    FetchReturned =>
        LET req == fetchCall.req
            log == fetchCall.out.log
        IN \A i, j \in 1..Len(log) :
              Consecutive(log, i, j) =>
                 LET a == log[i][2]
                 IN SleptBetween(log, i, j) =
                       IF req.resp[a + 1] = "ratelimit"
                       THEN Pow(3, a + 1)
                       ELSE Pow(2, a + 1)

FailsOnceOnly(f) ==
    /\ \E k \in 1..Len(f) : f[k].status # 200
    /\ \A k \in 1..Len(f) : f[k].again = 200

\* the fetch of the shop page failed once and then succeeded
ShopFetchedAtRetry ==
    \E f \in fetched : f.task = DiscoverTask /\ f.req = RetryOnceRequest

\* C14: a discovery request that fails once and would succeed when sent
\* again does not abort the run: main does not end fatally on it and run does
\* not return the error of the discovery.
C14_DiscoveryRetried ==
    /\ (variant = "api" /\ FailsOnceOnly(feed)) => runPc # "fatal"
    /\ (variant = "html" /\ ShopFetchedAtRetry) =>
          (runPc = "failed" => lastWrite.kind = "final")

\* the product links that page p of category c shows
LinksOnPage(c, p) ==
    IF variant = "api"
    THEN {ApiPage(c, p)[i].permalink : i \in 1..Len(ApiPage(c, p))}
    ELSE {HtmlPage(c, p).links[i].url : i \in 1..Len(HtmlPage(c, p).links)}

\* those of them that no earlier page of the category shows
NewOnPage(c, p) ==
    LinksOnPage(c, p) \ UNION {LinksOnPage(c, q) : q \in 1..(p - 1)}

\* page p of category c tells that a further page exists (the api source
\* has no such signal)
MorePages(c, p) == variant = "api" \/ HtmlPage(c, p).next

\* the page tasks resolved so far
PagesResolved == {r \in resolved : "page" \in DOMAIN r.task}

\* C15: pagination of a category stops at the first page that yields no new
\* entry or carries no next-page signal: no page after such a page is ever
\* requested, and a listing that ends without a failed fetch ends at such a
\* page.
C15_StopsAtFirstPageWithoutNew ==
    \A r \in PagesResolved :
        LET c == r.task.categoryName
            p == r.task.page
        IN /\ \A q \in 1..(p - 1) : NewOnPage(c, q) # {} /\ MorePages(c, q)
           /\ r.outcome = "listed" =>
                 (NewOnPage(c, p) = {} \/ ~MorePages(c, p))

\* how many of the elements of the sequence s are about the url
CountUrl(s, url) == Cardinality({i \in 1..Len(s) : s[i].url = url})

\* the detail tasks that workers hold
HeldEntries == {w \in Workers : wpc[w] \in {"fetch", "send"}}

\* the detail tasks resolved so far
EntriesResolved == {r \in resolved : "url" \in DOMAIN r.task}

\* the first page of the category that shows the url
FirstPageWith(c, url) ==
    CHOOSE p \in 1..MaxListPage :
        /\ url \in LinksOnPage(c, p)
        /\ \A q \in 1..(p - 1) : url \notin LinksOnPage(c, q)

\* the image next to the first link to the url on a page
FirstImage(links, url) ==
    links[CHOOSE i \in 1..Len(links) :
             /\ links[i].url = url
             /\ \A j \in 1..(i - 1) : links[j].url # url].img

\* C16: the detail tasks of the static pool hold each product url at most
\* once: the listing entries have pairwise different urls, each is the one
\* met first (the image of the first link to it in its category, and no entry
\* of another category that lists the url was merged before it), and every
\* url is in at most one place among the job queue, the hands of the workers
\* and the tasks resolved.
C16_EachUrlOnce ==
    variant = "html" =>
        /\ \A i, j \in 1..Len(allEntries) :
              allEntries[i].url = allEntries[j].url => i = j
        /\ seen = {allEntries[i].url : i \in 1..Len(allEntries)}
        /\ \A i \in 1..Len(allEntries) :
              LET e == allEntries[i]
                  p == FirstPageWith(e.category, e.url)
              IN /\ e.url \in UNION {LinksOnPage(e.category, q) :
                                        q \in 1..MaxListPage}
                 /\ e.imagen64 = FirstImage(HtmlPage(e.category, p).links, e.url)
                 /\ \A j \in 1..(i - 1) :
                       allEntries[j].category # e.category =>
                          \A q \in 1..MaxListPage :
                             e.url \notin LinksOnPage(allEntries[j].category, q)
        /\ \A url \in seen :
              CountUrl(jobs, url)
              + Cardinality({w \in HeldEntries : wtask[w].url = url})
              + Cardinality({r \in EntriesResolved : r.task.url = url}) <= 1

\* u1, listed twice under A and once under B, was met first under B; its
\* one task is resolved and the run is done
C16_Witness ==
    /\ variant = "html"
    /\ Done
    /\ Len(allEntries) = 4
    /\ \E r \in EntriesResolved :
          r.task.url = "u1" /\ r.task.category = "B"

\* the tasks that workers have resolved: page tasks in the api engine,
\* detail tasks in the html engine
WorkerResolved == IF variant = "api" THEN PagesResolved ELSE EntriesResolved

\* C17: a worker that has finished a task sleeps the delay before it pulls
\* the next one, whatever the outcome of the task: completed, skipped after
\* a failed fetch, or an empty page.
C17_SleepsAfterEveryTask == \A r \in WorkerResolved : r.slept

\* the sequence is in ascending order of category and, within a category,
\* of name
SortedByCategoryAndName(s) ==
    \A i, j \in 1..Len(s) :
        i < j =>
           \/ StrRank(s[i].categoria) < StrRank(s[j].categoria)
           \/ /\ s[i].categoria = s[j].categoria
              /\ StrRank(s[i].nombre) <= StrRank(s[j].nombre)

\* how many times x is in the sequence s
CountIn(s, x) == Cardinality({i \in 1..Len(s) : s[i] = x})

\* the two sequences hold the same elements, each as many times
SameProducts(s, t) ==
    \A x \in Range(s) \cup Range(t) : CountIn(s, x) = CountIn(t, x)

\* the last call of writeJSON was of this kind and wrote the file
Wrote(kind) == lastWrite.kind = kind /\ lastWrite.outcome = "ok"

\* C18, as claimed: every write of the product list, per batch or final,
\* leaves the accumulated products in the file sorted by category and name.
C18_EveryWriteSorted ==
    (Wrote("batch") \/ Wrote("final")) =>
        /\ SameProducts(outFile.data, arrival)
        /\ SortedByCategoryAndName(outFile.data)

\* C18, amended: the final write leaves the accumulated products in the file
\* sorted by category and name; a write per batch leaves the accumulated
\* products in the file in the order in which run received them.
C18_FinalWriteSorted ==
    /\ Wrote("final") =>
          /\ SameProducts(outFile.data, arrival)
          /\ SortedByCategoryAndName(outFile.data)
    /\ Wrote("batch") => outFile.data = arrival

\* the write after the second batch has left three products in the file, in
\* the order received, which is not the sorted one
C18_Witness ==
    /\ Wrote("batch")
    /\ Len(outFile.data) = 3
    /\ ~SortedByCategoryAndName(outFile.data)

\* the products that a worker emits for a task
TaskProducts(t) ==
    IF variant = "api"
    THEN parseProducts(ApiPage(t.categoryName, t.page), t.categoryName)
    ELSE <<scrapeProduct(t)>>

\* the tasks for which a worker has emitted its products and gone on
Completed == {r \in WorkerResolved : r.outcome = "completed"}

\* how many times the workers have emitted the product x
EmittedCount(x) ==
    Cardinality(UNION {{<<r, i>> : i \in {k \in 1..Len(TaskProducts(r.task)) :
                                            TaskProducts(r.task)[k] = x}} :
                       r \in Completed})

Emitted == UNION {Range(TaskProducts(r.task)) : r \in Completed}

\* C19: the final write happens once, when the results channel has been
\* closed and drained and every worker has exited; it is the last write of
\* the run; and the file it writes holds every product that any worker has
\* emitted, as many times as emitted, and nothing else.
C19_FinalWriteLastAndComplete ==
    /\ runPc = "final" => lastWrite.kind # "final"
    /\ (runPc = "final" \/ lastWrite.kind = "final") =>
          /\ resultsClosed
          /\ results = <<>>
          /\ wg = 0
          /\ \A w \in Workers :
                wpc[w] \in {"off", "exited"} /\ wbatch[w] = <<>>
    /\ lastWrite.kind = "final" => runPc \in {"done", "failed"}
    /\ Done =>
          /\ Wrote("final")
          /\ \A x \in Emitted \cup Range(outFile.data) :
                CountIn(outFile.data, x) = EmittedCount(x)

\* two workers of the api engine have emitted three batches, four products
\* in all, and the final write holds them
C19_Witness ==
    /\ variant = "api"
    /\ numWorkers = 2
    /\ Done
    /\ Cardinality(Completed) = 3
    /\ Len(outFile.data) = 4

\* the file holds every product that run has received so far
FileHoldsReceived ==
    /\ outFile.valid
    /\ \A x \in Range(arrival) :
          CountIn(outFile.data, x) >= CountIn(arrival, x)

\* C20, as claimed: from the moment the collector has handled a batch, the
\* file holds every product received so far.
C20_FileHoldsAllReceived == arrival # <<>> => FileHoldsReceived

\* C20, amended: in the api engine, whenever the last write, per batch or
\* final, has succeeded, the file holds every product received so far; the
\* html engine writes nothing before the final write of run.
C20_FileHoldsReceivedAfterWrite ==
    /\ (variant = "api" /\ (Wrote("batch") \/ Wrote("final"))) =>
          FileHoldsReceived
    /\ (variant = "html" /\ runPc \in {"list", "collect", "final"}) =>
          outFile = NoFile /\ lastWrite = NoWrite

\* the collector has written its second batch while a worker is still
\* fetching a page
C20_Witness ==
    /\ variant = "api"
    /\ runPc = "collect"
    /\ Wrote("batch")
    /\ Len(arrival) >= 2
    /\ \E w \in Workers : wpc[w] = "fetch"

(***************************************************************************)
(* The fields of an emitted Product (C21..C27), on SpecProduct              *)
(***************************************************************************)

Converted == productCall.returned

FromApi == productCall.engine = "api"

FromHtml == productCall.engine \in {"regex", "query"}

\* C21: for every Product emitted, the on-sale flag is true exactly when the
\* list price is strictly greater than the effective price.
C21_OnSaleIffListAbovePrice ==
    Converted =>
        (productCall.out.enOferta
            <=> productCall.out.precioOriginal > productCall.out.precio)

\* C22: for every Product emitted, the price is not negative, the list price
\* is not below the price, and the list price equals the price whenever the
\* product is not on sale.
C22_ListPriceNotBelowPrice ==
    Converted =>
        /\ productCall.out.precio >= 0
        /\ productCall.out.precioOriginal >= productCall.out.precio
        /\ ~productCall.out.enOferta =>
               productCall.out.precioOriginal = productCall.out.precio

\* the amount of a minor-unit integer: divided by 10^exponent, to two
\* decimals
Amount(priceStr, exponent) ==
    RoundDiv(Atoi(priceStr).val * 100, Pow(10, exponent))

Max(a, b) == IF a >= b THEN a ELSE b

\* the strings of the prices record that are given are integers
PricesWellFormed(pr) ==
    /\ pr.price # "" /\ Atoi(pr.price).ok
    /\ pr.regular_price = "" \/ Atoi(pr.regular_price).ok
    /\ pr.sale_price = "" \/ Atoi(pr.sale_price).ok

\* C23: price resolution from minor-unit integers: the effective price is
\* the sale price when a sale price exists, otherwise the price; the list
\* price is the maximum of sale price and regular price; with no sale
\* information the list price equals the price; each amount is the integer
\* divided by 10^exponent.
C23_PriceResolution ==
    (Converted /\ FromApi /\ PricesWellFormed(productCall.src.ap.prices)) =>
        LET pr   == productCall.src.ap.prices
            e    == pr.currency_minor_unit
            sale == pr.sale_price # ""
            eff  == IF sale THEN Amount(pr.sale_price, e)
                    ELSE Amount(pr.price, e)
            list == IF sale
                    THEN Max(Amount(pr.sale_price, e),
                             IF pr.regular_price = "" THEN 0
                             ELSE Amount(pr.regular_price, e))
                    ELSE eff
        IN /\ productCall.out.precio = eff
           /\ productCall.out.precioOriginal = list
           /\ productCall.out.enOferta = (list > eff)

\* the three stock states, as the programs spell them
OutOfStock == "Agotado"

Available == "Disponible"

Unknown == "Desconocido"

\* C24: the stock state of every Product is one of exactly three values,
\* chosen by priority from the two page indicators only: the out-of-stock
\* marker gives OutOfStock even with an add-to-cart affordance, otherwise
\* add-to-cart gives Available, otherwise Unknown.
C24_StockByPriority ==
    Converted =>
        /\ productCall.out.stock \in {OutOfStock, Available, Unknown}
        /\ FromHtml =>
               productCall.out.stock =
                   IF productCall.src.page.noExist THEN OutOfStock
                   ELSE IF productCall.src.page.addToCart THEN Available
                   ELSE Unknown

\* the labels of a breadcrumb trail: the texts that are not blank
RECURSIVE Labels(_)
Labels(crumbs) ==
    IF crumbs = <<>> THEN <<>>
    ELSE IF Head(crumbs) = "" THEN Labels(Tail(crumbs))
         ELSE <<Head(crumbs)>> \o Labels(Tail(crumbs))

RECURSIVE WithoutHome(_)
WithoutHome(labels) ==
    IF labels = <<>> THEN <<>>
    ELSE IF IsHomeLabel(Head(labels)) THEN WithoutHome(Tail(labels))
         ELSE <<Head(labels)>> \o WithoutHome(Tail(labels))

\* the category path of a trail: its labels in source order, without the
\* trailing label and without the home label
PathOf(crumbs) ==
    LET labels == Labels(crumbs)
    IN WithoutHome(IF labels = <<>> THEN <<>>
                   ELSE SubSeq(labels, 1, Len(labels) - 1))

\* the category a conversion was given by the listing
ListedCategory ==
    IF FromApi THEN productCall.src.categoryName
    ELSE productCall.src.entry.category

\* C25: the category of a Product is the category under which it was
\* discovered when that is not empty, otherwise the last remaining
\* breadcrumb label, otherwise "General"; it is never empty.
C25_CategoryNeverEmpty ==
    Converted =>
        /\ productCall.out.categoria # ""
        /\ ListedCategory # "" => productCall.out.categoria = ListedCategory
        /\ (FromHtml /\ ListedCategory = "") =>
               LET path == PathOf(productCall.src.page.crumbs)
               IN productCall.out.categoria =
                      IF path # <<>> THEN path[Len(path)] ELSE "General"

\* C26: the subcategories of a Product are the breadcrumb labels in source
\* order without the home label and the trailing label; when that leaves
\* nothing they are the single listing-supplied category, or "General"; the
\* list is never empty.
C26_SubcategoriesFromBreadcrumbs ==
    Converted =>
        /\ productCall.out.subcategorias # <<>>
        /\ FromHtml =>
               LET path == PathOf(productCall.src.page.crumbs)
               IN productCall.out.subcategorias =
                      IF path # <<>> THEN path
                      ELSE IF ListedCategory # "" THEN <<ListedCategory>>
                      ELSE <<"General">>

\* the image found on the detail page (api: the src of the first image) and
\* the thumbnail found by the listing (api: the 100w entry of its srcset)
DetailImage ==
    CASE productCall.engine = "api" ->
             IF productCall.src.ap.images = <<>> THEN ""
             ELSE productCall.src.ap.images[1].src
      [] productCall.engine = "regex" ->
             absURL(reImgSrc(productCall.src.page.img))
      [] OTHER -> absURL(imgSelector(productCall.src.page.img))

ListingThumbnail ==
    IF FromApi
    THEN IF productCall.src.ap.images = <<>> THEN ""
         ELSE extractSrcsetURL(productCall.src.ap.images[1].srcset, "100w")
    ELSE productCall.src.entry.imagen64

\* C27: image is the detail-page image when present, else the listing
\* thumbnail; thumbnail falls back to image; image is empty only when no
\* image was found on either page, and exactly when thumbnail is empty.
C27_ImagesMirrored ==
    Converted =>
        /\ productCall.out.imagen =
               IF DetailImage # "" THEN DetailImage ELSE ListingThumbnail
        /\ productCall.out.imagen64 =
               IF ListingThumbnail # "" THEN ListingThumbnail
               ELSE productCall.out.imagen
        /\ productCall.out.imagen = "" <=> productCall.out.imagen64 = ""

(***************************************************************************)
(* Who changes what (C28), on Spec                                         *)
(***************************************************************************)

\* the state of the collector: the product list, the counts per category,
\* the dedup set and the output file
Accumulated == <<allProducts, counts, seen, outFile>>

\* a step of the goroutine of main and run
RunStep ==
    \/ MainDiscover \/ RunReset \/ RunLaunch \/ SeedRegister \/ SeedSend
    \/ RunStartMonitor \/ RunCollectBatch \/ RunCollectEnd \/ RunFinalWrite
    \/ RunDiscover \/ RunCollectCategory \/ RunLaunchPool
    \/ RunCollectProduct

\* a step of the collecting loop of run
CollectorStep == RunCollectBatch \/ RunCollectEnd \/ RunCollectProduct

\* a step of a worker: a launched worker moves on in its loop
WorkerMoves == \E w \in Workers : wpc[w] # "off" /\ wpc'[w] # wpc[w]

\* what is shared between goroutines besides the pending counter, the
\* queues and the WaitGroup
SharedRest ==
    <<cfgVars, runPc, cats, seedVars, tasksClosed, resultsClosed, monPc,
      allProducts, counts, outFile, catsLeft, seen, allEntries, jobsClosed,
      rerunVars>>

\* C28 (as stated): workers never write the accumulated product list, the
\* per-category counts, the dedup set or the output file; these are changed
\* only by the collector loop of run, and the only shared state a worker
\* changes is the pending counter and the two queues.
C28_OnlyCollectorLoopChanges ==
    [][/\ Accumulated' # Accumulated => CollectorStep
       /\ WorkerMoves => UNCHANGED <<SharedRest, wg>>]_vars

\* C28 (amended): the product list, the counts, the dedup set and the
\* output file are changed only by steps of the goroutine of run (the reset
\* write, the listing phase, the collecting loop, the final sort and write),
\* never by a worker; the only shared state a worker changes is the pending
\* counter, the queues and, when it exits, the WaitGroup.
C28_OnlyRunChangesAccumulated ==
    [][/\ Accumulated' # Accumulated => RunStep
       /\ WorkerMoves => UNCHANGED SharedRest]_vars

\* the collector has accumulated products while a worker holds a batch it
\* has parsed and not yet sent
C28_Witness ==
    /\ allProducts # <<>>
    /\ outFile.valid
    /\ \E w \in Workers : wpc[w] = "send" /\ wbatch[w] # <<>>

(***************************************************************************)
(* The life of a detail task in the static pool (C29), on Spec             *)
(***************************************************************************)

\* the pool has been launched: every entry has been submitted
PoolLaunched ==
    variant = "html" /\ runPc \in {"collect", "final", "done", "failed"}

\* run has left its collecting loop
PoolCollected == variant = "html" /\ runPc \in {"final", "done", "failed"}

\* in how many places the entry is: waiting in the job queue, in the hands
\* of a worker, resolved as completed, resolved as skipped
Queued(e) == Cardinality({i \in 1..Len(jobs) : jobs[i] = e})

InFlight(e) == Cardinality({w \in HeldEntries : wtask[w] = e})

Terminal(e, outcome) ==
    Cardinality({r \in EntriesResolved :
                    r.task = e /\ r.outcome = outcome})

\* the products carrying the link that workers have sent so far: those
\* still in the results channel and those run has received
SentFor(url) ==
    Cardinality({i \in 1..Len(results) : results[i].link = url})
    + Cardinality({i \in 1..Len(arrival) : arrival[i].link = url})

\* C29: in the static pool every listing entry is at any time in exactly one
\* of the states Queued, InFlight, Completed, Skipped, held by at most one
\* worker; a Completed entry has emitted exactly one Product and any other
\* none; and when run has finished collecting, products collected + tasks
\* skipped = entries submitted.
C29_TaskLifecycle ==
    /\ PoolLaunched =>
          /\ \A i \in 1..Len(allEntries) :
                LET e == allEntries[i]
                IN /\ Queued(e) + InFlight(e) + Terminal(e, "completed")
                         + Terminal(e, "skipped") = 1
                   /\ SentFor(e.url) = Terminal(e, "completed")
          /\ \A r \in EntriesResolved :
                /\ r.outcome \in {"completed", "skipped"}
                /\ \E i \in 1..Len(allEntries) : allEntries[i] = r.task
    /\ PoolCollected =>
          /\ jobs = <<>> /\ HeldEntries = {} /\ results = <<>>
          /\ Len(allProducts)
                + Cardinality({r \in EntriesResolved : r.outcome = "skipped"})
             = Len(allEntries)

\* two workers have worked off four entries: one skipped after a failed
\* fetch, three completed, and run has collected the three products
C29_Witness ==
    /\ variant = "html"
    /\ numWorkers = 2
    /\ Done
    /\ Len(allEntries) = 4
    /\ Len(allProducts) = 3
    /\ Cardinality({r \in EntriesResolved : r.outcome = "skipped"}) = 1

(***************************************************************************)
(* Blocked senders in the dynamic scheduler (C30), on Spec                 *)
(***************************************************************************)

\* the seeding loop waits to send on the full tasks channel
SeedBlocked ==
    runPc = "seed" /\ seedCur # None /\ Len(tasksCh) = TasksCap

\* the worker waits to send its batch on the full results channel or its
\* follow-up task on the full tasks channel
WorkerBlocked(w) ==
    \/ wpc[w] = "send" /\ Len(results) = ResultsCap
    \/ wpc[w] = "enqueue" /\ Len(tasksCh) = TasksCap

\* Every worker waits on a send and nothing will ever free a slot: the
\* seeding loop waits on the tasks channel too, or seeding is over and the
\* collector has nothing to receive. No goroutine can take a step that
\* changes the state; the monitor, if started, polls a positive counter.
SendersStuck ==
    /\ variant = "api"
    /\ \A w \in 1..numWorkers : WorkerBlocked(w)
    /\ SeedBlocked \/ (runPc = "collect" /\ results = <<>>)
    /\ ~ENABLED <<Next>>_vars

\* C30: the dynamic scheduler is deadlock-free for any number of categories
\* and workers: no reachable state has the seeding loop and all workers
\* blocked forever on a send to the full tasks channel or to the full
\* results channel.
C30_NoSendDeadlock == ~SendersStuck

(***************************************************************************)
(* Sends and closes (C31), on Spec                                         *)
(***************************************************************************)

\* C31: no send ever happens on a closed queue: the monitor closes the tasks
\* channel once, and no worker (nor the seeding loop) has a send on it
\* ahead after that; the results channel is closed once, only after every
\* worker has exited, so no worker has a send on it ahead.
C31_NoSendOnClosed ==
    /\ runPc # "panic"
    /\ \A w \in Workers :
          /\ wpc[w] # "panic"
          /\ wpc[w] \in {"register", "enqueue"} => ~tasksClosed
          /\ wpc[w] = "send" => ~resultsClosed
    /\ runPc = "seed" => ~tasksClosed
    /\ monPc = "close" => ~tasksClosed
    /\ tasksClosed => monPc = "done"
    /\ resultsClosed =>
          /\ wg = 0
          /\ \A w \in Workers : wpc[w] \in {"off", "exited"}

\* a run of the api engine in which a worker has sent a follow-up task and
\* both channels have been closed since
C31_Witness ==
    /\ variant = "api"
    /\ tasksClosed
    /\ resultsClosed
    /\ \E r \in PagesResolved : r.task.page = 2 /\ r.outcome = "completed"

(***************************************************************************)
(* The pages of one category in the dynamic scheduler (C32), on Spec       *)
(***************************************************************************)

\* the page tasks of the category on the tasks channel
QueuedPages(c) ==
    {i \in 1..Len(tasksCh) : tasksCh[i].categoryName = c}

\* the workers that hold a page task of the category, not yet marked done
HoldingPages(c) == {w \in Holding : wtask[w].categoryName = c}

\* those of them that have not yet sent the follow-up task: they fetch,
\* send their batch, or are about to enqueue the next page
WorkingPages(c) ==
    {w \in HoldingPages(c) : wpc[w] \in {"fetch", "send", "register", "enqueue"}}

\* every page task of the model that exists now: queued or held
PageTasksNow ==
    {tasksCh[i] : i \in 1..Len(tasksCh)} \cup {wtask[w] : w \in Holding}

\* page p of c was fetched and returned products
ReturnedProducts(c, p) ==
    /\ \E f \in fetched : f.task = Task(c, p) /\ ~f.err
    /\ ApiPage(c, p) # <<>>

\* a page task exists or was fetched only after the page before it returned
\* products, and never after an empty page
PagesInOrder ==
    /\ \A t \in PageTasksNow \cup {f.task : f \in fetched} :
          ("page" \in DOMAIN t /\ t.page > 1) =>
              ReturnedProducts(t.categoryName, t.page - 1)
    /\ \A r \in PagesResolved :
          r.outcome = "empty" =>
              \A t \in PageTasksNow \cup {f.task : f \in fetched} :
                 ("page" \in DOMAIN t /\ t.categoryName = r.task.categoryName)
                     => t.page <= r.task.page
    /\ \A f, g \in fetched :
          (f.task = g.task /\ "page" \in DOMAIN f.task) => f = g

\* C32 (as stated): at any time at most one page task per category is
\* queued or in flight; page n+1 is enqueued only after page n returned a
\* non-empty result and an empty page enqueues nothing, so the pages are
\* fetched in order without gaps; the queued tasks never outnumber the
\* categories.
C32_OneTaskPerCategory ==
    variant = "api" =>
        /\ \A c \in cats :
              Cardinality(QueuedPages(c)) + Cardinality(HoldingPages(c)) <= 1
        /\ PagesInOrder
        /\ Len(tasksCh) <= Cardinality(cats)

\* C32 (amended): at most one page task per category is queued or being
\* worked on; the workers that have sent the follow-up and not yet marked
\* their own task done still hold earlier pages of the category; the pages
\* are fetched in order without gaps, none twice, none after an empty page;
\* the queued tasks never outnumber the categories.
C32_OneWorkingTaskPerCategory ==
    variant = "api" =>
        /\ \A c \in cats :
              /\ Cardinality(QueuedPages(c)) + Cardinality(WorkingPages(c)) <= 1
              /\ \A w \in HoldingPages(c) \ WorkingPages(c) :
                    /\ \A i \in QueuedPages(c) : tasksCh[i].page > wtask[w].page
                    /\ \A v \in HoldingPages(c) \ {w} :
                          wtask[v].page # wtask[w].page
                    /\ \A v \in WorkingPages(c) : wtask[v].page > wtask[w].page
        /\ PagesInOrder
        /\ Len(tasksCh) <= Cardinality(cats)

\* one worker has sent page 2 of A and not yet marked page 1 done, the
\* other worker is fetching page 2
C32_Witness ==
    /\ variant = "api"
    /\ \E w, v \in Workers :
          /\ wpc[w] = "retire" /\ wtask[w] = Task("A", 1)
          /\ wpc[v] = "fetch" /\ wtask[v] = Task("A", 2)

(***************************************************************************)
(* A skipped page ends the pagination of its category only (C33), on Spec  *)
(***************************************************************************)

\* every page task of the category that the run has known so far: queued,
\* held, fetched or resolved
PageTasksEver(c) ==
    {t \in PageTasksNow \cup {f.task : f \in fetched}
                        \cup {r.task : r \in PagesResolved} :
        "page" \in DOMAIN t /\ t.categoryName = c}

\* the pagination of the category has ended: one of its pages came back
\* empty or was skipped
PaginationEnded(c) ==
    \E r \in PagesResolved :
        r.task.categoryName = c /\ r.outcome \in {"empty", "skipped"}

\* the pagination of the category goes on: exactly one page task of it is
\* counted for the channel, queued or being worked on
PaginationGoesOn(c) ==
    \/ seedCur = c
    \/ Cardinality(QueuedPages(c)) + Cardinality(WorkingPages(c)) = 1

\* C33: once page i of a category is skipped, no task for a later page of
\* that category exists or has existed, and no worker is at work on the
\* category; every seeded category whose own pagination has not ended still
\* has its one page task, whatever happened to the other categories.
C33_SkipEndsOnlyItsCategory ==
    variant = "api" =>
        /\ \A r \in PagesResolved :
              r.outcome = "skipped" =>
                 /\ \A t \in PageTasksEver(r.task.categoryName) :
                       t.page <= r.task.page
                 /\ QueuedPages(r.task.categoryName) = {}
                 /\ WorkingPages(r.task.categoryName) = {}
        /\ \A c \in cats \ seedLeft :
              (runPc \in {"seed", "collect"} /\ ~PaginationEnded(c))
                  => PaginationGoesOn(c)

\* page 1 of A was skipped and B has been paginated to its empty second
\* page; the run has ended
C33_Witness ==
    /\ variant = "api"
    /\ monPc = "done"
    /\ Resolution(Task("A", 1), "skipped", FALSE) \in resolved
    /\ Resolution(Task("B", 1), "completed", TRUE) \in resolved
    /\ Resolution(Task("B", 2), "empty", FALSE) \in resolved

(***************************************************************************)
(* The waits of one fetch call (C34), on SpecFetch                         *)
(***************************************************************************)

Waits(log) == {i \in 1..Len(log) : log[i][1] = "sleep"}

\* C34: inside one fetch call every backoff wait is followed by another
\* request attempt: no wait is performed after the final attempt, whatever
\* the class of its failure, a rate-limit answer included.
C34_EveryWaitBeforeAnAttempt ==
    FetchReturned =>
        \A i \in Waits(fetchCall.out.log) :
            \E j \in Tries(fetchCall.out.log) : j > i

====
